---- MODULE Spec2Model ----
(***************************************************************************)
(* Build-time OG image generator (scripts/generate-og-images.ts).          *)
(*                                                                         *)
(* One run of main() is modelled step by step: output directory, default   *)
(* background (local read or HTTPS download with redirects), per-page      *)
(* background overrides, fonts, the page loop and the summary.  The file   *)
(* system, the HTTPS peer and the satori/resvg services are the            *)
(* environment: which files exist, what the peer answers and which page    *)
(* generation throws are chosen nondeterministically.                      *)
(*                                                                         *)
(* Paths are sequences of segments, a segment is the sequence of its       *)
(* dot-separated parts ("og-background.jpg" is <<"og-background","jpg">>). *)
(* Strings that are built or tested character-wise (base64, data URIs)     *)
(* are sequences of string pieces; '' is the empty sequence.               *)
(***************************************************************************)
EXTENDS Integers, Sequences, FiniteSets, TLC

\* ------------------------------------------------------------------------
\* Bounds of the model
\* ------------------------------------------------------------------------
MaxPages == 2
MaxRerunPages == 1
MaxHops == 2
MaxRuns == 2

\* ------------------------------------------------------------------------
\* Configuration
\* ------------------------------------------------------------------------
OG_WIDTH == 1200
OG_HEIGHT == 630

DOT == <<"", "">>
DOTDOT == <<"", "", "">>

RECURSIVE NormalizeFrom(_, _)
NormalizeFrom(acc, rest) ==
  IF rest = <<>> THEN acc
  ELSE LET s == Head(rest) IN
       IF s = DOT THEN NormalizeFrom(acc, Tail(rest))
       ELSE IF s = DOTDOT /\ Len(acc) > 0
            THEN NormalizeFrom(SubSeq(acc, 1, Len(acc) - 1), Tail(rest))
            ELSE NormalizeFrom(Append(acc, s), Tail(rest))

join(base, rel) == NormalizeFrom(<<>>, base \o rel)

dirname(p) == SubSeq(p, 1, Len(p) - 1)

PROJECT_ROOT == << <<"project">> >>
OUTPUT_DIR == join(PROJECT_ROOT, << <<"public">>, <<"og">> >>)
FONTS_DIR == join(PROJECT_ROOT, << <<"assets">>, <<"fonts">> >>)
DEFAULT_BG_PATH ==
  join(PROJECT_ROOT, << <<"assets">>, <<"bg">>, <<"og-background", "jpg">> >>)
DEFAULT_BG_URL == "https://assets.jozapf.de/jpg/og_image_v2_1200x630_jozapf_de.jpg"

PLACEHOLDER_DATA_URL ==
  <<"data:", "image/png", ";base64,",
     "i", "V", "B", "O", "R", "w", "0", "K", "G", "g", "o", "A", "A", "A", "A", "N",
     "S", "U", "h", "E", "U", "g", "A", "A", "A", "A", "E", "A", "A", "A", "A", "B",
     "C", "A", "Y", "A", "A", "A", "A", "f", "F", "c", "S", "J", "A", "A", "A", "A",
     "D", "U", "l", "E", "Q", "V", "R", "4", "2", "m", "N", "k", "+", "M", "9", "Q",
     "D", "w", "A", "D", "h", "g", "G", "A", "W", "j", "R", "9", "a", "w", "A", "A",
     "A", "A", "B", "J", "R", "U", "5", "E", "r", "k", "J", "g", "g", "g", "=", "=" >>

fontFiles ==
  << <<"Montserrat-Bold", "ttf">>,
     <<"Montserrat-Medium", "ttf">>,
     <<"Montserrat-Regular", "ttf">> >>

\* fontFile.includes(sub), for the two substrings the weight is derived from
FontFileIncludes(fontFile, sub) ==
  \/ sub = "Bold" /\ fontFile[1] = "Montserrat-Bold"
  \/ sub = "Medium" /\ fontFile[1] = "Montserrat-Medium"

\* variant: every font that is not bold is taken as regular
FontWeightBoldOrRegular(fontFile) ==
  IF FontFileIncludes(fontFile, "Bold") THEN 700 ELSE 400

FontWeight(fontFile) ==
  IF FontFileIncludes(fontFile, "Bold") THEN 700
  ELSE IF FontFileIncludes(fontFile, "Medium") THEN 500 ELSE 400

\* ------------------------------------------------------------------------
\* JavaScript values
\* ------------------------------------------------------------------------
Undefined == <<"<undefined>">>
EmptyString == <<>>

Truthy(v) == v # Undefined /\ v # EmptyString

\* a || b
OrElse(a, b) == IF Truthy(a) THEN a ELSE b

\* Map.prototype.get / has
MapGet(m, k) == IF k \in DOMAIN m THEN m[k] ELSE Undefined
MapHas(m, k) == k \in DOMAIN m
\* variant: a key that is present keeps its value
MapSetKeepsFirst(m, k, v) ==
  IF k \in DOMAIN m THEN m ELSE [x \in DOMAIN m \cup {k} |-> IF x = k THEN v ELSE m[x]]

MapSet(m, k, v) == [x \in DOMAIN m \cup {k} |-> IF x = k THEN v ELSE m[x]]

\* ------------------------------------------------------------------------
\* Buffers and base64
\* ------------------------------------------------------------------------
B64 ==
  << "A", "B", "C", "D", "E", "F", "G", "H", "I", "J", "K", "L", "M", "N", "O", "P",
     "Q", "R", "S", "T", "U", "V", "W", "X", "Y", "Z", "a", "b", "c", "d", "e", "f",
     "g", "h", "i", "j", "k", "l", "m", "n", "o", "p", "q", "r", "s", "t", "u", "v",
     "w", "x", "y", "z", "0", "1", "2", "3", "4", "5", "6", "7", "8", "9", "+", "/" >>

\* Buffer.prototype.toString('base64')
RECURSIVE ToBase64(_)
ToBase64(buf) ==
  IF Len(buf) = 0 THEN <<>>
  ELSE IF Len(buf) = 1 THEN
    << B64[(buf[1] \div 4) + 1], B64[((buf[1] % 4) * 16) + 1], "=", "=" >>
  ELSE IF Len(buf) = 2 THEN
    << B64[(buf[1] \div 4) + 1],
       B64[((buf[1] % 4) * 16) + (buf[2] \div 16) + 1],
       B64[((buf[2] % 16) * 4) + 1], "=" >>
  ELSE
    << B64[(buf[1] \div 4) + 1],
       B64[((buf[1] % 4) * 16) + (buf[2] \div 16) + 1],
       B64[((buf[2] % 16) * 4) + (buf[3] \div 64) + 1],
       B64[(buf[3] % 64) + 1] >> \o ToBase64(SubSeq(buf, 4, Len(buf)))

\* Buffer.concat(chunks)
RECURSIVE BufferConcat(_)
BufferConcat(chunks) ==
  IF chunks = <<>> THEN <<>> ELSE Head(chunks) \o BufferConcat(Tail(chunks))

\* `data:${mimeType};base64,${base64}`
DataUrl(mimeType, base64) == <<"data:", mimeType, ";base64,">> \o base64

\* ------------------------------------------------------------------------
\* loadImageAsBase64
\* ------------------------------------------------------------------------
\* String.prototype.toLowerCase on the extensions that occur
ToLowerCase(s) ==
  CASE s = "JPG" -> "jpg"
    [] s = "JPEG" -> "jpeg"
    [] s = "PNG" -> "png"
    [] s = "Png" -> "png"
    [] s = "WEBP" -> "webp"
    [] OTHER -> s

\* imagePath.toLowerCase().split('.').pop(): the text after the last dot of
\* the whole path; when the last segment has no dot that text contains a '/'
\* (or is the whole path) and is no key of mimeTypes.
SlashTail == "<text containing a slash>"
ExtOf(imagePath) ==
  LET last == imagePath[Len(imagePath)] IN
  IF Len(last) >= 2 THEN ToLowerCase(last[Len(last)]) ELSE SlashTail

mimeTypes ==
  [jpg |-> "image/jpeg", jpeg |-> "image/jpeg",
   png |-> "image/png", webp |-> "image/webp"]

\* mimeTypes[ext || 'jpg'] || 'image/jpeg'; mimeTypes is a plain object, so
\* the lower-case names inherited from Object.prototype are found too.
MimeTypeOf(ext) ==
  LET key == IF ext = "" THEN "jpg" ELSE ext IN
  IF key \in DOMAIN mimeTypes THEN mimeTypes[key]
  ELSE IF key = "constructor" THEN "function Object() { [native code] }"
  ELSE IF key = "__proto__" THEN "[object Object]"
  ELSE "image/jpeg"

loadImageAsBase64(fileContent, imagePath) ==
  DataUrl(MimeTypeOf(ExtOf(imagePath)), ToBase64(fileContent))

\* ------------------------------------------------------------------------
\* Page configurations
\* ------------------------------------------------------------------------
Slugs == {"home", "docs"}

\* bgImage is project-root relative; NoBgImage is an absent (or empty) field
NoBgImage == <<>>
BgImages ==
  { NoBgImage,
    << DOT, <<"assets">>, <<"bg">>, <<"og-background", "jpg">> >>,
    << <<"assets">>, <<"bg">>, <<"special-background", "png">> >> }

\* accentColors is a set holding the override, empty when the field is absent
PageTexts ==
  [home |-> [title |-> "Dynamic OG Generator",
             subtitle |-> "Build-Time Social Media Images",
             description |-> "Generate beautiful Open Graph images at build time",
             badge |-> "github.com",
             accentColors |-> {}],
   docs |-> [title |-> "Documentation",
             subtitle |-> "Setup & Configuration Guide",
             description |-> "Learn how to integrate the Dynamic OG Generator",
             badge |-> "docs",
             accentColors |->
               {[start |-> "#3b82f6", middle |-> "#8b5cf6", end |-> "#ec4899"]}]]

PageConfig(slug, bgImage) ==
  [slug |-> slug,
   title |-> PageTexts[slug].title,
   subtitle |-> PageTexts[slug].subtitle,
   description |-> PageTexts[slug].description,
   badge |-> PageTexts[slug].badge,
   bgImage |-> bgImage,
   accentColors |-> PageTexts[slug].accentColors]

PageConfigs == {PageConfig(s, b) : s \in Slugs, b \in BgImages}

PageLists == UNION {[1..n -> PageConfigs] : n \in 0..MaxPages}

\* ------------------------------------------------------------------------
\* createOGTemplate, generateOGImage
\* ------------------------------------------------------------------------
DefaultAccentColors == [start |-> "#e26b34", middle |-> "#336851", end |-> "#1b3c65"]

\* variant: the page's accentColors are not looked at
AccentColorsAlwaysDefault(page) == DefaultAccentColors

\* page.accentColors || {start, middle, end}
AccentColorsOf(page) ==
  IF page.accentColors # {}
  THEN CHOOSE c \in page.accentColors : TRUE
  ELSE DefaultAccentColors

\* a CSS linear-gradient: direction and (color, position in percent) stops
LinearGradient(direction, stops) == <<"linear-gradient", direction>> \o stops

RootStyle ==
  [width |-> "100%", height |-> "100%", display |-> "flex",
   alignItems |-> "center", justifyContent |-> "center",
   position |-> "relative", fontFamily |-> "Montserrat", overflow |-> "hidden"]

\* layer 1
BackgroundImage(bgImageDataUrl) ==
  [type |-> "img", src |-> bgImageDataUrl,
   style |-> [position |-> "absolute", top |-> 0, left |-> 0,
              width |-> "100%", height |-> "100%", objectFit |-> "cover"]]

\* layer 2
DarkOverlay ==
  [type |-> "div",
   style |-> [position |-> "absolute", top |-> 0, left |-> 0, right |-> 0,
              bottom |-> 0,
              background |-> LinearGradient("135deg",
                << <<"rgba(26,26,46,0.88)", 0>>, <<"rgba(22,33,62,0.85)", 50>>,
                   <<"rgba(15,52,96,0.82)", 100>> >>)]]

\* layer 4
GlossyOverlay ==
  [type |-> "div",
   style |-> [position |-> "absolute", top |-> 0, left |-> 0, right |-> 0,
              height |-> "50%"]]

Badge(page) ==
  [type |-> "div",
   style |-> [position |-> "absolute", top |-> 28, fontSize |-> 20,
              fontWeight |-> 500, color |-> "rgba(255,255,255,0.9)"],
   children |-> page.badge]

Title(page) ==
  [type |-> "div",
   style |-> [fontSize |-> 64, fontWeight |-> 700, color |-> "#ffffff"],
   children |-> page.title]

Subtitle(page) ==
  [type |-> "div",
   style |-> [fontSize |-> 32, fontWeight |-> 500,
              color |-> "rgba(255,255,255,0.85)"],
   children |-> page.subtitle]

Divider(colors) ==
  [type |-> "div",
   style |-> [width |-> 120, height |-> 3,
              background |-> LinearGradient("90deg",
                << <<colors.start, 0>>, <<colors.middle, 50>>,
                   <<colors.end, 100>> >>)]]

Description(page) ==
  [type |-> "div",
   style |-> [maxWidth |-> 900, fontSize |-> 24, fontWeight |-> 400,
              color |-> "rgba(255,255,255,0.7)"],
   children |-> page.description]

\* variant: a page with an empty badge gets no badge element
CardChildrenOptionalBadge(page, colors) ==
  IF page.badge = ""
  THEN << GlossyOverlay, Title(page), Subtitle(page), Divider(colors),
          Description(page) >>
  ELSE << GlossyOverlay, Badge(page), Title(page), Subtitle(page),
          Divider(colors), Description(page) >>

CardChildren(page, colors) ==
  << GlossyOverlay, Badge(page), Title(page), Subtitle(page), Divider(colors),
     Description(page) >>

\* variant: a card that leaves 50px on every side
CardWithEqualMargins(page, colors) ==
  [type |-> "div",
   style |-> [width |-> 1100, height |-> 530, borderRadius |-> 32,
              display |-> "flex", flexDirection |-> "column",
              alignItems |-> "center", justifyContent |-> "center",
              position |-> "relative"],
   children |-> CardChildren(page, colors)]

\* layer 3
Card(page, colors) ==
  [type |-> "div",
   style |-> [width |-> 1100, height |-> 550, borderRadius |-> 32,
              display |-> "flex", flexDirection |-> "column",
              alignItems |-> "center", justifyContent |-> "center",
              position |-> "relative"],
   children |-> CardChildren(page, colors)]

\* variant: the root element carries the slug as its key
createOGTemplateKeyed(page, bgImageDataUrl) ==
  [type |-> "div",
   key |-> page.slug,
   style |-> RootStyle,
   children |-> << BackgroundImage(bgImageDataUrl), DarkOverlay,
                   Card(page, AccentColorsOf(page)) >>]

createOGTemplate(page, bgImageDataUrl) ==
  [type |-> "div",
   style |-> RootStyle,
   children |-> << BackgroundImage(bgImageDataUrl), DarkOverlay,
                   Card(page, AccentColorsOf(page)) >>]

\* variant: one filename for all pages
OgFilenameFixed(slug) == <<"og-", "image", ".png">>

\* `og-${page.slug}.png`
OgFilename(slug) == <<"og-", slug, ".png">>

\* satori(tree, {width, height, fonts}): the SVG is determined by its inputs
Satori(tree, width, height, fontSet) ==
  [tree |-> tree, width |-> width, height |-> height,
   fonts |-> [k \in 1..Len(fontSet) |->
               [name |-> fontSet[k].name, weight |-> fontSet[k].weight]]]

\* new Resvg(svg, {fitTo}).render().asPng()
ResvgPng(svg, fitTo) == [svg |-> svg, fitTo |-> fitTo]

\* variant: the raster step is fit to the width of the card
OgPngFitToCard(page, bgImageDataUrl, fontSet) ==
  LET tree == createOGTemplate(page, bgImageDataUrl) IN
  ResvgPng(Satori(tree, OG_WIDTH, OG_HEIGHT, fontSet),
           [mode |-> "width", value |-> tree.children[3].style.width])

\* the buffer generateOGImage writes when nothing throws
OgPng(page, bgImageDataUrl, fontSet) ==
  ResvgPng(Satori(createOGTemplate(page, bgImageDataUrl),
                  OG_WIDTH, OG_HEIGHT, fontSet),
           [mode |-> "width", value |-> OG_WIDTH])

\* where generateOGImage can throw
GenerateOutcomes == {"ok", "template", "satori", "resvg", "write"}

\* ------------------------------------------------------------------------
\* Environment: file contents, HTTP answers
\* ------------------------------------------------------------------------
BG_DIR == dirname(DEFAULT_BG_PATH)
SPECIAL_BG_PATH ==
  join(PROJECT_ROOT, << <<"assets">>, <<"bg">>, <<"special-background", "png">> >>)
FontPath(fontFile) == join(FONTS_DIR, <<fontFile>>)
FontPaths == {FontPath(fontFiles[k]) : k \in 1..Len(fontFiles)}

LocalDefaultBytes == <<255, 216>>
LocalSpecialBytes == <<137, 80, 78, 71>>
FontBytes == <<0, 1>>

InitialContent(path) ==
  IF path = DEFAULT_BG_PATH THEN LocalDefaultBytes
  ELSE IF path = SPECIAL_BG_PATH THEN LocalSpecialBytes
  ELSE FontBytes

\* the fonts are all installed, or one of them is absent
MissingFontCases == {{}} \cup {{f} : f \in FontPaths}

MIRROR_URL == "https://cdn.example/og-background.jpg"
Statuses == {200, 301, 302, 404}
Locations == {"", MIRROR_URL}

\* the image each URL serves; how it is cut into chunks is up to the transport
RemoteBody(url) == IF url = MIRROR_URL THEN <<216, 255>> ELSE <<255, 216>>

\* ------------------------------------------------------------------------
\* State
\* ------------------------------------------------------------------------
VARIABLES
  pages,        \* PAGES
  files,        \* asset files on disk: path -> bytes
  dirs,         \* directories on disk
  ogFiles,      \* content of OUTPUT_DIR: filename -> PNG
  run,          \* number of the current run of the script
  pc,           \* position of main()
  idx,          \* index of the current for-of loop
  bgPaths,      \* main: bgPaths
  bgCache,      \* main: bgCache
  fonts,        \* main: fonts
  bgDataUrl,    \* main: bgDataUrl of the page in flight
  generated,    \* main: generated
  exitCode,     \* exit code of the process
  dl,           \* the promise and the request of downloadFile
  log,          \* console output
  loaderCalls,  \* per path: reads by loadImageAsBase64 plus downloadFile calls
  httpRequests, \* https.get calls of this run
  results,      \* per attempted page: "ok" or "failed"
  written,      \* names of the files this run wrote into OUTPUT_DIR
  lastSave,     \* the run that last saved a downloaded default background, and its bytes
  calls,        \* the last two calls of createOGTemplate or loadImageAsBase64
                \* made on their own, newest first: arguments and return value
  thrown        \* the file-system calls of main that threw in this run

vars ==
  <<pages, files, dirs, ogFiles, run, pc, idx, bgPaths, bgCache, fonts,
    bgDataUrl, generated, exitCode, dl, log, loaderCalls, httpRequests,
    results, written, lastSave, calls, thrown>>

fsVars == <<files, dirs, ogFiles>>
procVars == <<bgPaths, bgCache, fonts, bgDataUrl, generated, exitCode>>
ghostVars == <<loaderCalls, httpRequests, results, written>>

EmptyMap == [x \in {} |-> <<>>]

IdleDownload ==
  [state |-> "idle", url |-> "", hops |-> 0, statuses |-> <<>>,
   sent |-> 0, chunks |-> <<>>, value |-> <<>>, error |-> <<>>]

BgPathOf(page) == join(PROJECT_ROOT, page.bgImage)

AllBgPaths == {DEFAULT_BG_PATH, SPECIAL_BG_PATH}

Say(level, msg, arg) == [level |-> level, msg |-> msg, arg |-> arg]

existsSync(path) == path \in DOMAIN files

\* the state of a freshly started process
ProcessStart ==
  /\ pc = "start"
  /\ idx = 1
  /\ bgPaths = {}
  /\ bgCache = EmptyMap
  /\ fonts = <<>>
  /\ bgDataUrl = EmptyString
  /\ generated = <<>>
  /\ exitCode = 0
  /\ dl = IdleDownload
  /\ log = <<>>
  /\ loaderCalls = [p \in AllBgPaths |-> 0]
  /\ httpRequests = 0
  /\ results = <<>>
  /\ written = {}
  /\ thrown = <<>>

Init ==
  /\ pages \in PageLists
  /\ \E bgs \in SUBSET AllBgPaths, missing \in MissingFontCases :
       files = [p \in bgs \cup (FontPaths \ missing) |-> InitialContent(p)]
  /\ \E ds \in SUBSET {OUTPUT_DIR, BG_DIR} :
       /\ (\E p \in DOMAIN files : p \in AllBgPaths) => BG_DIR \in ds
       /\ dirs = ds
  /\ ogFiles = EmptyMap
  /\ run = 1
  /\ lastSave = [run |-> 0, bytes |-> <<>>]
  /\ calls = <<>>
  /\ ProcessStart

\* ------------------------------------------------------------------------
\* main: output directory and background paths
\* ------------------------------------------------------------------------
\* variant: the output directory is not created at the start
EnsureOutputDirLater ==
  /\ pc = "start"
  /\ log' = log \o << Say("log", "Generating image(s)", Len(pages)),
                      Say("log", "Output directory", OUTPUT_DIR) >>
  /\ pc' = "collect"
  /\ UNCHANGED <<thrown, calls, pages, lastSave, fsVars, run, idx, procVars, dl, ghostVars>>

EnsureOutputDir ==
  /\ pc = "start"
  /\ dirs' = dirs \cup {OUTPUT_DIR}
  /\ log' = log \o << Say("log", "Generating image(s)", Len(pages)),
                      Say("log", "Output directory", OUTPUT_DIR) >>
  /\ pc' = "collect"
  /\ UNCHANGED <<thrown, calls, pages, lastSave, files, ogFiles, run, idx, procVars, dl, ghostVars>>

CollectBgPaths ==
  /\ pc = "collect"
  /\ bgPaths' = {DEFAULT_BG_PATH} \cup
       {BgPathOf(pages[k]) : k \in {j \in 1..Len(pages) : Truthy(pages[j].bgImage)}}
  /\ pc' = "defaultBg"
  /\ UNCHANGED <<thrown, calls, pages, lastSave, fsVars, run, idx, bgCache, fonts, bgDataUrl, generated,
                 exitCode, dl, log, ghostVars>>

\* ------------------------------------------------------------------------
\* main: default background
\* ------------------------------------------------------------------------
\* variant: the default background is read only when some page needs it
LoadDefaultBackgroundIfUsed ==
  /\ pc = "defaultBg"
  /\ existsSync(DEFAULT_BG_PATH)
  /\ IF \E k \in 1..Len(pages) : ~Truthy(pages[k].bgImage)
     THEN /\ log' = Append(log, Say("log", "Loading default background image", <<>>))
          /\ bgCache' = MapSet(bgCache, DEFAULT_BG_PATH,
                               loadImageAsBase64(files[DEFAULT_BG_PATH], DEFAULT_BG_PATH))
          /\ loaderCalls' = [loaderCalls EXCEPT ![DEFAULT_BG_PATH] = @ + 1]
     ELSE UNCHANGED <<log, bgCache, loaderCalls>>
  /\ pc' = "bgResolved"
  /\ UNCHANGED <<thrown, calls, pages, lastSave, fsVars, run, idx, bgPaths, fonts, bgDataUrl, generated,
                 exitCode, dl, httpRequests, results, written>>

LoadDefaultBackground ==
  /\ pc = "defaultBg"
  /\ existsSync(DEFAULT_BG_PATH)
  /\ log' = Append(log, Say("log", "Loading default background image", <<>>))
  /\ bgCache' = MapSet(bgCache, DEFAULT_BG_PATH,
                       loadImageAsBase64(files[DEFAULT_BG_PATH], DEFAULT_BG_PATH))
  /\ loaderCalls' = [loaderCalls EXCEPT ![DEFAULT_BG_PATH] = @ + 1]
  /\ pc' = "bgResolved"
  /\ UNCHANGED <<thrown, calls, pages, lastSave, fsVars, run, idx, bgPaths, fonts, bgDataUrl, generated,
                 exitCode, dl, httpRequests, results, written>>

StartDownload ==
  /\ pc = "defaultBg"
  /\ ~existsSync(DEFAULT_BG_PATH)
  /\ log' = Append(log, Say("log", "Downloading default background image", <<>>))
  /\ dl' = [IdleDownload EXCEPT !.state = "requesting", !.url = DEFAULT_BG_URL]
  /\ loaderCalls' = [loaderCalls EXCEPT ![DEFAULT_BG_PATH] = @ + 1]
  /\ httpRequests' = httpRequests + 1
  /\ pc' = "awaitDownload"
  /\ UNCHANGED <<thrown, calls, pages, lastSave, fsVars, run, idx, procVars, results, written>>

\* ------------------------------------------------------------------------
\* downloadFile: the callbacks of one download
\* ------------------------------------------------------------------------
\* variant: only statuses from 400 on reject
HttpResponseRejectsOnlyErrors(status, location) ==
  /\ dl.state = "requesting"
  /\ IF (status = 301 \/ status = 302) /\ location # ""
     THEN /\ dl.hops < MaxHops
          /\ dl' = [dl EXCEPT !.url = location, !.hops = @ + 1,
                              !.statuses = Append(@, status)]
          /\ httpRequests' = httpRequests + 1
     ELSE /\ IF status >= 400
             THEN dl' = [dl EXCEPT !.state = "rejected",
                                   !.statuses = Append(@, status),
                                   !.error = <<"HTTP", status>>]
             ELSE dl' = [dl EXCEPT !.state = "streaming",
                                   !.statuses = Append(@, status)]
          /\ UNCHANGED httpRequests
  /\ UNCHANGED <<thrown, calls, pages, lastSave, fsVars, run, pc, idx, procVars, log, loaderCalls,
                 results, written>>

\* https.get callback: a response with this status and Location header
HttpResponse(status, location) ==
  /\ dl.state = "requesting"
  /\ IF (status = 301 \/ status = 302) /\ location # ""
     THEN /\ dl.hops < MaxHops
          /\ dl' = [dl EXCEPT !.url = location, !.hops = @ + 1,
                              !.statuses = Append(@, status)]
          /\ httpRequests' = httpRequests + 1
     ELSE /\ IF status # 200
             THEN dl' = [dl EXCEPT !.state = "rejected",
                                   !.statuses = Append(@, status),
                                   !.error = <<"HTTP", status>>]
             ELSE dl' = [dl EXCEPT !.state = "streaming",
                                   !.statuses = Append(@, status)]
          /\ UNCHANGED httpRequests
  /\ UNCHANGED <<thrown, calls, pages, lastSave, fsVars, run, pc, idx, procVars, log, loaderCalls,
                 results, written>>

\* 'error' on the request
RequestError ==
  /\ dl.state = "requesting"
  /\ dl' = [dl EXCEPT !.state = "rejected", !.error = <<"transport">>]
  /\ UNCHANGED <<thrown, calls, pages, lastSave, fsVars, run, pc, idx, procVars, log, ghostVars>>

\* 'data' on the response: the next n bytes of the body arrive as one chunk
ResponseData(n) ==
  /\ dl.state = "streaming"
  /\ dl.sent + n <= Len(RemoteBody(dl.url))
  /\ dl' = [dl EXCEPT !.chunks = Append(@, SubSeq(RemoteBody(dl.url),
                                                  dl.sent + 1, dl.sent + n)),
                      !.sent = @ + n]
  /\ UNCHANGED <<thrown, calls, pages, lastSave, fsVars, run, pc, idx, procVars, log, ghostVars>>

\* 'end' on the response, after the whole body was delivered
ResponseEnd ==
  /\ dl.state = "streaming"
  /\ dl.sent = Len(RemoteBody(dl.url))
  /\ dl' = [dl EXCEPT !.state = "resolved", !.value = BufferConcat(dl.chunks)]
  /\ UNCHANGED <<thrown, calls, pages, lastSave, fsVars, run, pc, idx, procVars, log, ghostVars>>

\* 'error' on the response
ResponseError ==
  /\ dl.state = "streaming"
  /\ dl' = [dl EXCEPT !.state = "rejected", !.error = <<"transport">>]
  /\ UNCHANGED <<thrown, calls, pages, lastSave, fsVars, run, pc, idx, procVars, log, ghostVars>>

\* variant: the downloaded image is cached but not written to disk
DownloadNotSaved ==
  /\ pc = "awaitDownload"
  /\ dl.state = "resolved"
  /\ LET buffer == dl.value
         dataUrl == DataUrl("image/jpeg", ToBase64(buffer))
     IN /\ bgCache' = MapSet(bgCache, DEFAULT_BG_PATH, dataUrl)
        /\ lastSave' = [run |-> run, bytes |-> buffer]
  /\ log' = Append(log, Say("log", "Saved locally for future builds", <<>>))
  /\ pc' = "bgResolved"
  /\ UNCHANGED <<thrown, calls, pages, fsVars, run, idx, bgPaths, fonts, bgDataUrl, generated,
                 exitCode, dl, ghostVars>>

\* main resumes after `await downloadFile`: cache the image, save it
DownloadSaved ==
  /\ pc = "awaitDownload"
  /\ dl.state = "resolved"
  /\ LET buffer == dl.value
         dataUrl == DataUrl("image/jpeg", ToBase64(buffer))
     IN /\ bgCache' = MapSet(bgCache, DEFAULT_BG_PATH, dataUrl)
        /\ dirs' = dirs \cup {BG_DIR}
        /\ files' = MapSet(files, DEFAULT_BG_PATH, buffer)
        /\ lastSave' = [run |-> run, bytes |-> buffer]
  /\ log' = Append(log, Say("log", "Saved locally for future builds", <<>>))
  /\ pc' = "bgResolved"
  /\ UNCHANGED <<thrown, calls, pages, ogFiles, run, idx, bgPaths, fonts, bgDataUrl, generated,
                 exitCode, dl, ghostVars>>

\* variant: a failed download ends the run
DownloadFailedIsFatal ==
  /\ pc = "awaitDownload"
  /\ dl.state = "rejected"
  /\ log' = Append(log, Say("error", "Failed to download background image", <<>>))
  /\ exitCode' = 1
  /\ pc' = "exited"
  /\ UNCHANGED <<thrown, calls, pages, lastSave, fsVars, run, idx, bgPaths, bgCache, fonts, bgDataUrl,
                 generated, dl, ghostVars>>

\* variant: a failed download is started again
DownloadFailedRetries ==
  /\ pc = "awaitDownload"
  /\ dl.state = "rejected"
  /\ log' = Append(log, Say("error", "Failed to download background image", <<>>))
  /\ dl' = IdleDownload
  /\ pc' = "defaultBg"
  /\ UNCHANGED <<thrown, calls, pages, lastSave, fsVars, run, idx, procVars, ghostVars>>

\* variant: the placeholder is used without a word
DownloadFailedSilently ==
  /\ pc = "awaitDownload"
  /\ dl.state = "rejected"
  /\ bgCache' = MapSet(bgCache, DEFAULT_BG_PATH, PLACEHOLDER_DATA_URL)
  /\ pc' = "bgResolved"
  /\ UNCHANGED <<thrown, calls, pages, lastSave, fsVars, run, idx, bgPaths, fonts, bgDataUrl,
                 generated, exitCode, dl, log, ghostVars>>

\* main resumes in the catch block: placeholder
DownloadFailed ==
  /\ pc = "awaitDownload"
  /\ dl.state = "rejected"
  /\ log' = log \o << Say("error", "Failed to download background image", <<>>),
                      Say("log", "Using gradient-only fallback", <<>>) >>
  /\ bgCache' = MapSet(bgCache, DEFAULT_BG_PATH, PLACEHOLDER_DATA_URL)
  /\ pc' = "bgResolved"
  /\ UNCHANGED <<thrown, calls, pages, lastSave, fsVars, run, idx, bgPaths, fonts, bgDataUrl, generated,
                 exitCode, dl, ghostVars>>

\* ------------------------------------------------------------------------
\* main: per-page background images
\* ------------------------------------------------------------------------
BeginOverrides ==
  /\ pc = "bgResolved"
  /\ pc' = "overrides"
  /\ idx' = 1
  /\ dl' = IdleDownload
  /\ UNCHANGED <<thrown, calls, pages, lastSave, fsVars, run, procVars, log, ghostVars>>

\* variant: every page with a bgImage loads it again
LoadPageBackgroundUncached ==
  /\ pc = "overrides"
  /\ idx <= Len(pages)
  /\ LET page == pages[idx]
         fullPath == BgPathOf(page)
     IN IF Truthy(page.bgImage)
        THEN IF existsSync(fullPath)
             THEN /\ log' = Append(log, Say("log", "Loading background for", page.slug))
                  /\ bgCache' = MapSet(bgCache, fullPath,
                                       loadImageAsBase64(files[fullPath], fullPath))
                  /\ loaderCalls' = [loaderCalls EXCEPT ![fullPath] = @ + 1]
             ELSE /\ log' = log \o
                       << Say("warn", "Background not found for", page.slug),
                          Say("log", "Falling back to default background", <<>>) >>
                  /\ UNCHANGED <<bgCache, loaderCalls>>
        ELSE UNCHANGED <<log, bgCache, loaderCalls>>
  /\ idx' = idx + 1
  /\ UNCHANGED <<thrown, calls, pages, lastSave, fsVars, run, pc, bgPaths, fonts, bgDataUrl, generated,
                 exitCode, dl, httpRequests, results, written>>

LoadPageBackground ==
  /\ pc = "overrides"
  /\ idx <= Len(pages)
  /\ LET page == pages[idx]
         fullPath == BgPathOf(page)
     IN IF Truthy(page.bgImage) /\ ~MapHas(bgCache, fullPath)
        THEN IF existsSync(fullPath)
             THEN /\ log' = Append(log, Say("log", "Loading background for", page.slug))
                  /\ bgCache' = MapSet(bgCache, fullPath,
                                       loadImageAsBase64(files[fullPath], fullPath))
                  /\ loaderCalls' = [loaderCalls EXCEPT ![fullPath] = @ + 1]
             ELSE /\ log' = log \o
                       << Say("warn", "Background not found for", page.slug),
                          Say("log", "Falling back to default background", <<>>) >>
                  /\ UNCHANGED <<bgCache, loaderCalls>>
        ELSE UNCHANGED <<log, bgCache, loaderCalls>>
  /\ idx' = idx + 1
  /\ UNCHANGED <<thrown, calls, pages, lastSave, fsVars, run, pc, bgPaths, fonts, bgDataUrl, generated,
                 exitCode, dl, httpRequests, results, written>>

BeginFonts ==
  /\ pc = "overrides"
  /\ idx > Len(pages)
  /\ pc' = "fonts"
  /\ idx' = 1
  /\ UNCHANGED <<thrown, calls, pages, lastSave, fsVars, run, procVars, dl, log, ghostVars>>

\* ------------------------------------------------------------------------
\* main: fonts
\* ------------------------------------------------------------------------
LoadFont ==
  /\ pc = "fonts"
  /\ idx <= Len(fontFiles)
  /\ LET fontFile == fontFiles[idx]
         fontPath == FontPath(fontFile)
     IN /\ existsSync(fontPath)
        /\ fonts' = Append(fonts, [name |-> "Montserrat", data |-> files[fontPath],
                                   weight |-> FontWeight(fontFile),
                                   style |-> "normal"])
  /\ idx' = idx + 1
  /\ UNCHANGED <<thrown, calls, pages, lastSave, fsVars, run, pc, bgPaths, bgCache, bgDataUrl, generated,
                 exitCode, dl, log, ghostVars>>

\* variant: before exiting, what the run created is removed again
FontNotFoundCleansUp ==
  /\ pc = "fonts"
  /\ idx <= Len(fontFiles)
  /\ ~existsSync(FontPath(fontFiles[idx]))
  /\ log' = log \o << Say("error", "Font not found", fontFiles[idx]),
                      Say("log", "Run npm run setup first", <<>>) >>
  /\ files' = IF lastSave.run = run
              THEN [p \in DOMAIN files \ {DEFAULT_BG_PATH} |-> files[p]]
              ELSE files
  /\ dirs' = dirs \ {OUTPUT_DIR}
  /\ exitCode' = 1
  /\ pc' = "exited"
  /\ UNCHANGED <<thrown, calls, pages, lastSave, ogFiles, run, idx, bgPaths, bgCache, fonts,
                 bgDataUrl, generated, dl, ghostVars>>

\* variant: a missing font is reported and skipped
FontNotFoundSkips ==
  /\ pc = "fonts"
  /\ idx <= Len(fontFiles)
  /\ ~existsSync(FontPath(fontFiles[idx]))
  /\ log' = log \o << Say("error", "Font not found", fontFiles[idx]),
                      Say("log", "Run npm run setup first", <<>>) >>
  /\ idx' = idx + 1
  /\ UNCHANGED <<thrown, calls, pages, lastSave, fsVars, run, pc, procVars, dl, ghostVars>>

\* process.exit(1)
FontNotFound ==
  /\ pc = "fonts"
  /\ idx <= Len(fontFiles)
  /\ ~existsSync(FontPath(fontFiles[idx]))
  /\ log' = log \o << Say("error", "Font not found", fontFiles[idx]),
                      Say("log", "Run npm run setup first", <<>>) >>
  /\ exitCode' = 1
  /\ pc' = "exited"
  /\ UNCHANGED <<thrown, calls, pages, lastSave, fsVars, run, idx, bgPaths, bgCache, fonts, bgDataUrl,
                 generated, dl, ghostVars>>

FontsLoaded ==
  /\ pc = "fonts"
  /\ idx > Len(fontFiles)
  /\ log' = log \o << Say("log", "Fonts loaded", <<>>),
                      Say("log", "Generating images:", <<>>) >>
  /\ pc' = "pages"
  /\ idx' = 1
  /\ UNCHANGED <<thrown, calls, pages, lastSave, fsVars, run, procVars, dl, ghostVars>>

\* ------------------------------------------------------------------------
\* main: page loop and summary
\* ------------------------------------------------------------------------
\* variant: an override that is not cached is not replaced by the default
ResolveBackgroundNoFallback(page) ==
  LET default == OrElse(MapGet(bgCache, DEFAULT_BG_PATH), EmptyString) IN
  IF Truthy(page.bgImage)
  THEN OrElse(MapGet(bgCache, BgPathOf(page)), EmptyString)
  ELSE default

\* per-page override -> default
ResolveBackground(page) ==
  LET default == OrElse(MapGet(bgCache, DEFAULT_BG_PATH), EmptyString) IN
  IF Truthy(page.bgImage)
  THEN OrElse(MapGet(bgCache, BgPathOf(page)), default)
  ELSE default

\* variant: the next page is started together with the current one
BeginPageStartsNext ==
  /\ pc = "pages"
  /\ idx <= Len(pages)
  /\ bgDataUrl' = ResolveBackground(pages[idx])
  /\ log' = log \o
       IF idx < Len(pages)
       THEN << Say("out", "page", pages[idx].slug),
               Say("out", "page", pages[idx + 1].slug) >>
       ELSE << Say("out", "page", pages[idx].slug) >>
  /\ pc' = "awaitPage"
  /\ UNCHANGED <<thrown, calls, pages, lastSave, fsVars, run, idx, bgPaths, bgCache, fonts, generated,
                 exitCode, dl, ghostVars>>

BeginPage ==
  /\ pc = "pages"
  /\ idx <= Len(pages)
  /\ bgDataUrl' = ResolveBackground(pages[idx])
  /\ log' = Append(log, Say("out", "page", pages[idx].slug))
  /\ pc' = "awaitPage"
  /\ UNCHANGED <<thrown, calls, pages, lastSave, fsVars, run, idx, bgPaths, bgCache, fonts, generated,
                 exitCode, dl, ghostVars>>

\* variant: the output file is opened before the page is rendered
SettlePageOpensFileFirst(outcome) ==
  /\ pc = "awaitPage"
  /\ LET page == pages[idx]
         filename == OgFilename(page.slug)
     IN IF outcome = "ok"
        THEN /\ ogFiles' = MapSet(ogFiles, filename, OgPng(page, bgDataUrl, fonts))
             /\ written' = written \cup {filename}
             /\ generated' = Append(generated, filename)
             /\ log' = Append(log, Say("log", "ok", filename))
             /\ results' = Append(results, "ok")
        ELSE /\ ogFiles' = MapSet(ogFiles, filename, <<>>)
             /\ log' = log \o << Say("log", "Failed", <<>>),
                                 Say("error", "page error", <<>>) >>
             /\ results' = Append(results, "failed")
             /\ UNCHANGED <<written, generated>>
  /\ idx' = idx + 1
  /\ pc' = "pages"
  /\ UNCHANGED <<thrown, calls, pages, lastSave, files, dirs, run, bgPaths, bgCache, fonts, bgDataUrl,
                 exitCode, dl, loaderCalls, httpRequests>>

\* variant: a page that throws ends the loop
SettlePageAbortsBatch(outcome) ==
  /\ pc = "awaitPage"
  /\ LET page == pages[idx]
         filename == OgFilename(page.slug)
     IN IF outcome = "ok"
        THEN /\ ogFiles' = MapSet(ogFiles, filename, OgPng(page, bgDataUrl, fonts))
             /\ written' = written \cup {filename}
             /\ generated' = Append(generated, filename)
             /\ log' = Append(log, Say("log", "ok", filename))
             /\ results' = Append(results, "ok")
             /\ idx' = idx + 1
        ELSE /\ log' = log \o << Say("log", "Failed", <<>>),
                                 Say("error", "page error", <<>>) >>
             /\ results' = Append(results, "failed")
             /\ idx' = Len(pages) + 1
             /\ UNCHANGED <<ogFiles, written, generated>>
  /\ pc' = "pages"
  /\ UNCHANGED <<thrown, calls, pages, lastSave, files, dirs, run, bgPaths, bgCache, fonts, bgDataUrl,
                 exitCode, dl, loaderCalls, httpRequests>>

\* generateOGImage settles: it returns the filename or throws at a stage
SettlePage(outcome) ==
  /\ pc = "awaitPage"
  /\ LET page == pages[idx]
         filename == OgFilename(page.slug)
     IN IF outcome = "ok"
        THEN /\ ogFiles' = MapSet(ogFiles, filename, OgPng(page, bgDataUrl, fonts))
             /\ written' = written \cup {filename}
             /\ generated' = Append(generated, filename)
             /\ log' = Append(log, Say("log", "ok", filename))
             /\ results' = Append(results, "ok")
        ELSE /\ log' = log \o << Say("log", "Failed", <<>>),
                                 Say("error", "page error", <<>>) >>
             /\ results' = Append(results, "failed")
             /\ UNCHANGED <<ogFiles, written, generated>>
  /\ idx' = idx + 1
  /\ pc' = "pages"
  /\ UNCHANGED <<thrown, calls, pages, lastSave, files, dirs, run, bgPaths, bgCache, fonts, bgDataUrl,
                 exitCode, dl, loaderCalls, httpRequests>>

\* variant: failed pages make the exit code 1
SummaryFailsOnErrors ==
  /\ pc = "pages"
  /\ idx > Len(pages)
  /\ log' = Append(log, Say("log", "Generated OG images",
                            <<Len(generated), Len(pages), generated>>))
  /\ pc' = "done"
  /\ exitCode' = IF Len(generated) < Len(pages) THEN 1 ELSE 0
  /\ UNCHANGED <<thrown, calls, pages, lastSave, fsVars, run, idx, bgPaths, bgCache, fonts,
                 bgDataUrl, generated, dl, ghostVars>>

Summary ==
  /\ pc = "pages"
  /\ idx > Len(pages)
  /\ log' = Append(log, Say("log", "Generated OG images",
                            <<Len(generated), Len(pages), generated>>))
  /\ pc' = "done"
  /\ UNCHANGED <<thrown, calls, pages, lastSave, fsVars, run, idx, procVars, dl, ghostVars>>

\* ------------------------------------------------------------------------
\* The script is run again on the same project directory
\* ------------------------------------------------------------------------
Terminated == pc \in {"done", "exited"}

Rerun ==
  /\ Terminated
  /\ run < MaxRuns
  /\ run' = run + 1
  /\ pc' = "start"
  /\ idx' = 1
  /\ bgPaths' = {}
  /\ bgCache' = EmptyMap
  /\ fonts' = <<>>
  /\ bgDataUrl' = EmptyString
  /\ generated' = <<>>
  /\ exitCode' = 0
  /\ dl' = IdleDownload
  /\ log' = <<>>
  /\ loaderCalls' = [p \in AllBgPaths |-> 0]
  /\ httpRequests' = 0
  /\ results' = <<>>
  /\ written' = {}
  /\ thrown' = <<>>
  /\ UNCHANGED <<calls, pages, lastSave, fsVars>>

Next ==
  \/ EnsureOutputDir
  \/ CollectBgPaths
  \/ LoadDefaultBackground
  \/ StartDownload
  \/ \E status \in Statuses, location \in Locations : HttpResponse(status, location)
  \/ RequestError
  \/ \E n \in 1..2 : ResponseData(n)
  \/ ResponseEnd
  \/ ResponseError
  \/ DownloadSaved
  \/ DownloadFailed
  \/ BeginOverrides
  \/ LoadPageBackground
  \/ BeginFonts
  \/ LoadFont
  \/ FontNotFound
  \/ FontsLoaded
  \/ BeginPage
  \/ \E outcome \in GenerateOutcomes : SettlePage(outcome)
  \/ Summary

Spec == Init /\ [][Next]_vars

\* runs of the script one after the other on the same project directory
InitRerun == Init /\ Len(pages) <= MaxRerunPages

NextRerun == Next \/ Rerun

SpecRerun == InitRerun /\ [][NextRerun]_vars

\* ------------------------------------------------------------------------
\* A file system whose calls can throw
\* ------------------------------------------------------------------------
Throw(call, path) == [call |-> call, path |-> path]

\* an exception leaves main: the promise of main() is rejected and
\* main().catch(console.error) prints the error; the process ends by itself
Uncaught(error) ==
  /\ thrown' = Append(thrown, error)
  /\ log' = Append(log, Say("error", "uncaught", error))
  /\ pc' = "crashed"

\* mkdirSync(OUTPUT_DIR) throws
MkdirOutputThrows ==
  /\ pc = "start"
  /\ OUTPUT_DIR \notin dirs
  /\ Uncaught(Throw("mkdirSync", OUTPUT_DIR))
  /\ UNCHANGED <<calls, pages, lastSave, fsVars, run, idx, procVars, dl, ghostVars>>

\* readFileSync throws in loadImageAsBase64(DEFAULT_BG_PATH)
ReadDefaultThrows ==
  /\ pc = "defaultBg"
  /\ existsSync(DEFAULT_BG_PATH)
  /\ thrown' = Append(thrown, Throw("readFileSync", DEFAULT_BG_PATH))
  /\ log' = log \o << Say("log", "Loading default background image", <<>>),
                      Say("error", "uncaught", Throw("readFileSync", DEFAULT_BG_PATH)) >>
  /\ pc' = "crashed"
  /\ loaderCalls' = [loaderCalls EXCEPT ![DEFAULT_BG_PATH] = @ + 1]
  /\ UNCHANGED <<calls, pages, lastSave, fsVars, run, idx, procVars, dl,
                 httpRequests, results, written>>

\* the download resolved and is cached; then mkdirSync(bgDir) or
\* writeFileSync(DEFAULT_BG_PATH) throws inside the try block
SaveThrows(call) ==
  /\ pc = "awaitDownload"
  /\ dl.state = "resolved"
  /\ call \in {"mkdirSync", "writeFileSync"}
  /\ bgCache' = MapSet(bgCache, DEFAULT_BG_PATH,
                       DataUrl("image/jpeg", ToBase64(dl.value)))
  /\ IF call = "mkdirSync"
     THEN /\ BG_DIR \notin dirs
          /\ thrown' = Append(thrown, Throw("mkdirSync", BG_DIR))
          /\ UNCHANGED dirs
     ELSE /\ dirs' = dirs \cup {BG_DIR}
          /\ thrown' = Append(thrown, Throw("writeFileSync", DEFAULT_BG_PATH))
  /\ pc' = "saveFailed"
  /\ UNCHANGED <<calls, pages, lastSave, files, ogFiles, run, idx, bgPaths, fonts,
                 bgDataUrl, generated, exitCode, dl, log, ghostVars>>

\* variant: the catch block keeps the image that was downloaded
CatchSaveErrorKeepsDownload ==
  /\ pc = "saveFailed"
  /\ log' = log \o << Say("error", "Failed to download background image", <<>>),
                      Say("log", "Using gradient-only fallback", <<>>) >>
  /\ pc' = "bgResolved"
  /\ UNCHANGED <<thrown, calls, pages, lastSave, fsVars, run, idx, procVars, dl, ghostVars>>

\* the catch block of the download after a save that threw
CatchSaveError ==
  /\ pc = "saveFailed"
  /\ log' = log \o << Say("error", "Failed to download background image", <<>>),
                      Say("log", "Using gradient-only fallback", <<>>) >>
  /\ bgCache' = MapSet(bgCache, DEFAULT_BG_PATH, PLACEHOLDER_DATA_URL)
  /\ pc' = "bgResolved"
  /\ UNCHANGED <<thrown, calls, pages, lastSave, fsVars, run, idx, bgPaths, fonts,
                 bgDataUrl, generated, exitCode, dl, ghostVars>>

\* readFileSync throws in loadImageAsBase64(fullPath) of an override
ReadOverrideThrows ==
  /\ pc = "overrides"
  /\ idx <= Len(pages)
  /\ Truthy(pages[idx].bgImage)
  /\ ~MapHas(bgCache, BgPathOf(pages[idx]))
  /\ existsSync(BgPathOf(pages[idx]))
  /\ thrown' = Append(thrown, Throw("readFileSync", BgPathOf(pages[idx])))
  /\ log' = log \o << Say("log", "Loading background for", pages[idx].slug),
                      Say("error", "uncaught",
                          Throw("readFileSync", BgPathOf(pages[idx]))) >>
  /\ pc' = "crashed"
  /\ loaderCalls' = [loaderCalls EXCEPT ![BgPathOf(pages[idx])] = @ + 1]
  /\ UNCHANGED <<calls, pages, lastSave, fsVars, run, idx, procVars, dl,
                 httpRequests, results, written>>

\* readFileSync(fontPath) throws
ReadFontThrows ==
  /\ pc = "fonts"
  /\ idx <= Len(fontFiles)
  /\ existsSync(FontPath(fontFiles[idx]))
  /\ Uncaught(Throw("readFileSync", FontPath(fontFiles[idx])))
  /\ UNCHANGED <<calls, pages, lastSave, fsVars, run, idx, procVars, dl, ghostVars>>

NextIO ==
  \/ Next
  \/ MkdirOutputThrows
  \/ ReadDefaultThrows
  \/ \E call \in {"mkdirSync", "writeFileSync"} : SaveThrows(call)
  \/ CatchSaveError
  \/ ReadOverrideThrows
  \/ ReadFontThrows

SpecIO == Init /\ [][NextIO]_vars

Ended == pc \in {"done", "exited", "crashed"}

\* ------------------------------------------------------------------------
\* The download of the default background under fair delivery of responses
\* ------------------------------------------------------------------------
RedirectTargets == {DEFAULT_BG_URL, MIRROR_URL}

\* request(redirectUrl) once more: downloadFile keeps no count of the hops it
\* has followed, so the hops and statuses recorded so far stay as they are
FollowRedirectUncounted(status, location) ==
  /\ dl.state = "requesting"
  /\ dl.hops = MaxHops
  /\ status \in {301, 302}
  /\ location \in RedirectTargets
  /\ dl' = [dl EXCEPT !.url = location]
  /\ UNCHANGED <<thrown, calls, pages, lastSave, fsVars, run, pc, idx, procVars, log, ghostVars>>

\* a request gets its answer: a response or 'error' on the request
RequestAnswered ==
  \/ \E status \in Statuses, location \in Locations : HttpResponse(status, location)
  \/ \E status \in Statuses, location \in RedirectTargets :
       FollowRedirectUncounted(status, location)
  \/ RequestError

\* a response delivers its events: 'data', then 'end' or 'error'
ResponseDelivered ==
  \/ \E n \in 1..2 : ResponseData(n)
  \/ ResponseEnd
  \/ ResponseError

NextDownload ==
  \/ EnsureOutputDir
  \/ CollectBgPaths
  \/ StartDownload
  \/ RequestAnswered
  \/ ResponseDelivered

SpecDownload ==
  /\ Init
  /\ [][NextDownload]_vars
  /\ WF_vars(RequestAnswered)
  /\ WF_vars(ResponseDelivered)

\* ------------------------------------------------------------------------
\* The earlier generator with one background for all pages
\* ------------------------------------------------------------------------
\* Its state is a record: the locals of its main, the file system it works
\* on, its pending download and the data URL it handed to generateOGImage.
\* downloadFile, loadImageAsBase64, createOGTemplate and generateOGImage of
\* the earlier script have the text of the current ones.
BG_IMAGE_PATH ==
  join(PROJECT_ROOT, << <<"assets">>, <<"bg">>, <<"og-background", "jpg">> >>)
BG_IMAGE_URL == "https://assets.jozapf.de/jpg/og_image_v2_1200x630_jozapf_de.jpg"

SingleStart(fileSystem, directories) ==
  [pc |-> "start", idx |-> 1, bgImageDataUrl |-> Undefined, fonts |-> <<>>,
   generated |-> <<>>, exitCode |-> 0, files |-> fileSystem, dirs |-> directories,
   ogFiles |-> EmptyMap, dl |-> IdleDownload, passed |-> EmptyString]

\* the callbacks of downloadFile(url): every way the download can go on
DownloadFileSteps(d) ==
  IF d.state = "requesting"
  THEN {[d EXCEPT !.url = location, !.hops = @ + 1, !.statuses = Append(@, status)] :
          status \in {s \in {301, 302} : d.hops < MaxHops},
          location \in Locations \ {""}}
       \cup {[d EXCEPT !.state = "rejected", !.statuses = Append(@, status),
                       !.error = <<"HTTP", status>>] :
               status \in Statuses \ {200}}
       \cup {[d EXCEPT !.state = "streaming", !.statuses = Append(@, 200)]}
       \cup {[d EXCEPT !.state = "rejected", !.error = <<"transport">>]}
  ELSE IF d.state = "streaming"
  THEN {[d EXCEPT !.chunks = Append(@, SubSeq(RemoteBody(d.url), d.sent + 1, d.sent + n)),
                  !.sent = @ + n] :
          n \in {m \in 1..2 : d.sent + m <= Len(RemoteBody(d.url))}}
       \cup {[d EXCEPT !.state = "resolved", !.value = BufferConcat(d.chunks)] :
               x \in {y \in {1} : d.sent = Len(RemoteBody(d.url))}}
       \cup {[d EXCEPT !.state = "rejected", !.error = <<"transport">>]}
  ELSE {}

SingleEnsureOutputDir(s) ==
  IF s.pc = "start"
  THEN {[s EXCEPT !.dirs = @ \cup {OUTPUT_DIR}, !.pc = "background"]}
  ELSE {}

SingleLoadBackground(s) ==
  IF s.pc = "background" /\ BG_IMAGE_PATH \in DOMAIN s.files
  THEN {[s EXCEPT !.bgImageDataUrl =
                    loadImageAsBase64(s.files[BG_IMAGE_PATH], BG_IMAGE_PATH),
                  !.pc = "fonts"]}
  ELSE {}

SingleStartDownload(s) ==
  IF s.pc = "background" /\ BG_IMAGE_PATH \notin DOMAIN s.files
  THEN {[s EXCEPT !.dl = [IdleDownload EXCEPT !.state = "requesting",
                                              !.url = BG_IMAGE_URL],
                  !.pc = "awaitDownload"]}
  ELSE {}

SingleDownloading(s) ==
  IF s.pc = "awaitDownload"
  THEN {[s EXCEPT !.dl = d] : d \in DownloadFileSteps(s.dl)}
  ELSE {}

SingleDownloadSaved(s) ==
  IF s.pc = "awaitDownload" /\ s.dl.state = "resolved"
  THEN {[s EXCEPT !.bgImageDataUrl = DataUrl("image/jpeg", ToBase64(s.dl.value)),
                  !.dirs = @ \cup {dirname(BG_IMAGE_PATH)},
                  !.files = MapSet(@, BG_IMAGE_PATH, s.dl.value),
                  !.dl = IdleDownload,
                  !.pc = "fonts"]}
  ELSE {}

SingleDownloadFailed(s) ==
  IF s.pc = "awaitDownload" /\ s.dl.state = "rejected"
  THEN {[s EXCEPT !.bgImageDataUrl = PLACEHOLDER_DATA_URL,
                  !.dl = IdleDownload,
                  !.pc = "fonts"]}
  ELSE {}

SingleLoadFont(s) ==
  IF s.pc = "fonts" /\ s.idx <= Len(fontFiles)
       /\ FontPath(fontFiles[s.idx]) \in DOMAIN s.files
  THEN {[s EXCEPT !.fonts = Append(@, [name |-> "Montserrat",
                                       data |-> s.files[FontPath(fontFiles[s.idx])],
                                       weight |-> FontWeight(fontFiles[s.idx]),
                                       style |-> "normal"]),
                  !.idx = @ + 1]}
  ELSE {}

SingleFontNotFound(s) ==
  IF s.pc = "fonts" /\ s.idx <= Len(fontFiles)
       /\ FontPath(fontFiles[s.idx]) \notin DOMAIN s.files
  THEN {[s EXCEPT !.exitCode = 1, !.pc = "exited"]}
  ELSE {}

SingleFontsLoaded(s) ==
  IF s.pc = "fonts" /\ s.idx > Len(fontFiles)
  THEN {[s EXCEPT !.pc = "pages", !.idx = 1]}
  ELSE {}

SingleBeginPage(s, pageList) ==
  IF s.pc = "pages" /\ s.idx <= Len(pageList)
  THEN {[s EXCEPT !.passed = s.bgImageDataUrl, !.pc = "awaitPage"]}
  ELSE {}

SingleSettlePage(s, pageList) ==
  IF s.pc = "awaitPage"
  THEN LET page == pageList[s.idx]
           filename == OgFilename(page.slug)
       IN {[s EXCEPT !.ogFiles = MapSet(@, filename, OgPng(page, s.passed, s.fonts)),
                     !.generated = Append(@, filename),
                     !.idx = @ + 1,
                     !.pc = "pages"],
           [s EXCEPT !.idx = @ + 1, !.pc = "pages"]}
  ELSE {}

SingleSummary(s, pageList) ==
  IF s.pc = "pages" /\ s.idx > Len(pageList)
  THEN {[s EXCEPT !.pc = "done"]}
  ELSE {}

\* every state the earlier generator can be in after one more step
SingleSteps(s, pageList) ==
  SingleEnsureOutputDir(s) \cup SingleLoadBackground(s) \cup SingleStartDownload(s)
    \cup SingleDownloading(s) \cup SingleDownloadSaved(s) \cup SingleDownloadFailed(s)
    \cup SingleLoadFont(s) \cup SingleFontNotFound(s) \cup SingleFontsLoaded(s)
    \cup SingleBeginPage(s, pageList) \cup SingleSettlePage(s, pageList)
    \cup SingleSummary(s, pageList)

\* the current generator on page lists without any bgImage
InitNoOverrides == Init /\ \A k \in 1..Len(pages) : pages[k].bgImage = NoBgImage

SpecNoOverrides == InitNoOverrides /\ [][Next]_vars

\* ------------------------------------------------------------------------
\* download-fonts: the script that fetches the three font files
\* ------------------------------------------------------------------------
\* It uses files, dirs, pc, idx, dl, exitCode, log and httpRequests; the
\* other variables belong to the generator and stay as they are.
FONTS ==
  << [name |-> <<"Montserrat-Regular", "ttf">>,
      url |-> "https://github.com/JulietaUla/Montserrat/raw/master/fonts/ttf/Montserrat-Regular.ttf"],
     [name |-> <<"Montserrat-Medium", "ttf">>,
      url |-> "https://github.com/JulietaUla/Montserrat/raw/master/fonts/ttf/Montserrat-Medium.ttf"],
     [name |-> <<"Montserrat-Bold", "ttf">>,
      url |-> "https://github.com/JulietaUla/Montserrat/raw/master/fonts/ttf/Montserrat-Bold.ttf"] >>

DestPath(k) == join(FONTS_DIR, <<FONTS[k].name>>)

\* where a font download is redirected to
FONT_CDN_URL == "https://raw.githubusercontent.com/JulietaUla/Montserrat/master/font.ttf"

\* the bytes served for the k-th font, and the bytes of a font installed before
ServedFont(k) == <<k, 1>>
InstalledFont == <<0>>

generatorVars ==
  <<pages, ogFiles, run, bgPaths, bgCache, fonts, bgDataUrl, generated,
    loaderCalls, results, written, lastSave, calls, thrown>>

InitFonts ==
  /\ pages = <<>>
  /\ \E present \in SUBSET (1..Len(FONTS)) :
       /\ files = [p \in {DestPath(k) : k \in present} |-> InstalledFont]
       /\ \E ds \in SUBSET {FONTS_DIR} :
            /\ present # {} => FONTS_DIR \in ds
            /\ dirs = ds
  /\ ogFiles = EmptyMap
  /\ run = 1
  /\ lastSave = [run |-> 0, bytes |-> <<>>]
  /\ calls = <<>>
  /\ ProcessStart

\* main: create the fonts directory
FontsEnsureDir ==
  /\ pc = "start"
  /\ dirs' = dirs \cup {FONTS_DIR}
  /\ log' = IF FONTS_DIR \in dirs THEN log
            ELSE Append(log, Say("log", "Created", FONTS_DIR))
  /\ pc' = "fontLoop"
  /\ UNCHANGED <<generatorVars, files, idx, exitCode, dl, httpRequests>>

\* the destination exists: continue with the next font
FontSkip ==
  /\ pc = "fontLoop"
  /\ idx <= Len(FONTS)
  /\ existsSync(DestPath(idx))
  /\ log' = Append(log, Say("log", "Skipping", FONTS[idx].name))
  /\ idx' = idx + 1
  /\ UNCHANGED <<generatorVars, files, dirs, pc, exitCode, dl, httpRequests>>

\* await downloadFile(font.url, destPath)
FontStartDownload ==
  /\ pc = "fontLoop"
  /\ idx <= Len(FONTS)
  /\ ~existsSync(DestPath(idx))
  /\ log' = Append(log, Say("log", "Downloading", FONTS[idx].name))
  /\ dl' = [IdleDownload EXCEPT !.state = "requesting", !.url = FONTS[idx].url]
  /\ httpRequests' = httpRequests + 1
  /\ pc' = "awaitFont"
  /\ UNCHANGED <<generatorVars, files, dirs, idx, exitCode>>

\* https.get callback of downloadFile(url, dest)
FontHttpResponse(status, location) ==
  /\ pc = "awaitFont"
  /\ dl.state = "requesting"
  /\ IF (status = 301 \/ status = 302) /\ location # ""
     THEN /\ dl.hops < MaxHops
          /\ dl' = [dl EXCEPT !.url = location, !.hops = @ + 1,
                              !.statuses = Append(@, status)]
          /\ httpRequests' = httpRequests + 1
     ELSE /\ IF status # 200
             THEN dl' = [dl EXCEPT !.state = "rejected",
                                   !.statuses = Append(@, status),
                                   !.error = <<"Failed to download", status>>]
             ELSE dl' = [dl EXCEPT !.state = "streaming",
                                   !.statuses = Append(@, status)]
          /\ UNCHANGED httpRequests
  /\ UNCHANGED <<generatorVars, files, dirs, pc, idx, exitCode, log>>

FontRequestError ==
  /\ pc = "awaitFont"
  /\ dl.state = "requesting"
  /\ dl' = [dl EXCEPT !.state = "rejected", !.error = <<"transport">>]
  /\ UNCHANGED <<generatorVars, files, dirs, pc, idx, exitCode, log, httpRequests>>

\* variant: each chunk is written to the destination as it arrives
FontResponseDataToFile(n) ==
  /\ pc = "awaitFont"
  /\ dl.state = "streaming"
  /\ dl.sent + n <= Len(ServedFont(idx))
  /\ dl' = [dl EXCEPT !.chunks = Append(@, SubSeq(ServedFont(idx), dl.sent + 1, dl.sent + n)),
                      !.sent = @ + n]
  /\ files' = MapSet(files, DestPath(idx), SubSeq(ServedFont(idx), 1, dl.sent + n))
  /\ UNCHANGED <<generatorVars, dirs, pc, idx, exitCode, log, httpRequests>>

\* 'data': chunks.push(chunk)
FontResponseData(n) ==
  /\ pc = "awaitFont"
  /\ dl.state = "streaming"
  /\ dl.sent + n <= Len(ServedFont(idx))
  /\ dl' = [dl EXCEPT !.chunks = Append(@, SubSeq(ServedFont(idx), dl.sent + 1, dl.sent + n)),
                      !.sent = @ + n]
  /\ UNCHANGED <<generatorVars, files, dirs, pc, idx, exitCode, log, httpRequests>>

\* 'end': writeFileSync(file, Buffer.concat(chunks)); resolve()
FontResponseEnd ==
  /\ pc = "awaitFont"
  /\ dl.state = "streaming"
  /\ dl.sent = Len(ServedFont(idx))
  /\ files' = MapSet(files, DestPath(idx), BufferConcat(dl.chunks))
  /\ dl' = [dl EXCEPT !.state = "resolved"]
  /\ UNCHANGED <<generatorVars, dirs, pc, idx, exitCode, log, httpRequests>>

\* 'error' on the response
FontResponseError ==
  /\ pc = "awaitFont"
  /\ dl.state = "streaming"
  /\ dl' = [dl EXCEPT !.state = "rejected", !.error = <<"transport">>]
  /\ UNCHANGED <<generatorVars, files, dirs, pc, idx, exitCode, log, httpRequests>>

\* main resumes after the await
FontSaved ==
  /\ pc = "awaitFont"
  /\ dl.state = "resolved"
  /\ log' = Append(log, Say("log", "Saved", FONTS[idx].name))
  /\ dl' = IdleDownload
  /\ idx' = idx + 1
  /\ pc' = "fontLoop"
  /\ UNCHANGED <<generatorVars, files, dirs, exitCode, httpRequests>>

\* catch: process.exit(1)
FontFailed ==
  /\ pc = "awaitFont"
  /\ dl.state = "rejected"
  /\ log' = Append(log, Say("error", "Failed", dl.error))
  /\ exitCode' = 1
  /\ pc' = "exited"
  /\ UNCHANGED <<generatorVars, files, dirs, idx, dl, httpRequests>>

FontsReady ==
  /\ pc = "fontLoop"
  /\ idx > Len(FONTS)
  /\ log' = Append(log, Say("log", "Fonts ready", <<>>))
  /\ pc' = "done"
  /\ UNCHANGED <<generatorVars, files, dirs, idx, exitCode, dl, httpRequests>>

NextFonts ==
  \/ FontsEnsureDir
  \/ FontSkip
  \/ FontStartDownload
  \/ \E status \in Statuses, location \in {"", FONT_CDN_URL} :
       FontHttpResponse(status, location)
  \/ FontRequestError
  \/ \E n \in 1..2 : FontResponseData(n)
  \/ FontResponseEnd
  \/ FontResponseError
  \/ FontSaved
  \/ FontFailed
  \/ FontsReady

SpecFonts == InitFonts /\ [][NextFonts]_vars

\* ------------------------------------------------------------------------
\* createOGTemplate and loadImageAsBase64 called on their own
\* ------------------------------------------------------------------------
\* accentColors: absent, an override, the default triple in reverse order
AccentColorChoices ==
  { {},
    {[start |-> "#3b82f6", middle |-> "#8b5cf6", end |-> "#ec4899"]},
    {[start |-> "#1b3c65", middle |-> "#336851", end |-> "#e26b34"]} }

TemplatePages ==
  [slug : Slugs,
   title : {"Dynamic OG Generator", "Documentation"},
   subtitle : {"Build-Time Social Media Images"},
   description : {"Generate beautiful Open Graph images at build time"},
   badge : {"github.com", ""},
   bgImage : {NoBgImage},
   accentColors : AccentColorChoices]

BgDataUrls ==
  {PLACEHOLDER_DATA_URL, DataUrl("image/jpeg", ToBase64(LocalDefaultBytes))}

\* file names: the dot-separated parts of the last path segment
ImageNames ==
  { <<"photo", "jpg">>, <<"photo", "JPG">>, <<"photo", "jpeg">>,
    <<"photo", "JPEG">>, <<"photo", "png">>, <<"photo", "Png">>,
    <<"photo", "webp">>, <<"photo", "WEBP">>, <<"photo", "gif">>,
    <<"photo", "svg">>, <<"photo", "min", "png">>, <<"photo", "">>,
    <<"photo">>, <<"", "hidden">>,
    <<"photo", "constructor">>, <<"photo", "__proto__">> }

ImagePaths == {join(PROJECT_ROOT, << <<"assets">>, <<"bg">>, n >>) : n \in ImageNames}

ImageContents == {LocalDefaultBytes, LocalSpecialBytes}

mainVars ==
  <<pages, files, dirs, ogFiles, run, pc, idx, bgPaths, bgCache, fonts,
    bgDataUrl, generated, exitCode, dl, log, loaderCalls, httpRequests,
    results, written, lastSave, thrown>>

\* the call becomes the newest of the two remembered calls
Remember(call) == <<call>> \o SubSeq(calls, 1, IF Len(calls) >= 1 THEN 1 ELSE 0)

CallCreateOGTemplate(page, bgImageDataUrl) ==
  /\ calls' = Remember([fn |-> "createOGTemplate", page |-> page,
                        bgImageDataUrl |-> bgImageDataUrl,
                        result |-> createOGTemplate(page, bgImageDataUrl)])
  /\ UNCHANGED mainVars

\* readFileSync(imagePath) and the conversion
CallLoadImageAsBase64(imagePath) ==
  /\ existsSync(imagePath)
  /\ calls' = Remember([fn |-> "loadImageAsBase64", imagePath |-> imagePath,
                        result |-> loadImageAsBase64(files[imagePath], imagePath)])
  /\ UNCHANGED mainVars

InitCalls ==
  /\ pages = <<>>
  /\ \E content \in ImageContents : files = [p \in ImagePaths |-> content]
  /\ dirs = {BG_DIR}
  /\ ogFiles = EmptyMap
  /\ run = 1
  /\ lastSave = [run |-> 0, bytes |-> <<>>]
  /\ calls = <<>>
  /\ ProcessStart

NextCalls ==
  \/ \E page \in TemplatePages, bg \in BgDataUrls : CallCreateOGTemplate(page, bg)
  \/ \E imagePath \in ImagePaths : CallLoadImageAsBase64(imagePath)

SpecCalls == InitCalls /\ [][NextCalls]_vars

\* ------------------------------------------------------------------------
\* Layout of the card by satori (flexbox)
\* ------------------------------------------------------------------------
\* children that take part in the flex layout of their parent
InFlowChildren(node) ==
  {k \in 1..Len(node.children) : node.children[k].style.position # "absolute"}

\* free space before an item on an axis of a container that centers on it
CenterOffset(containerSize, itemSize) == (containerSize - itemSize) \div 2

\* distances between the in-flow child of the root and the canvas edges
CardMargins(tree, width, height) ==
  LET card == tree.children[CHOOSE k \in InFlowChildren(tree) : TRUE]
      left == IF tree.style.justifyContent = "center"
              THEN CenterOffset(width, card.style.width) ELSE 0
      top == IF tree.style.alignItems = "center"
             THEN CenterOffset(height, card.style.height) ELSE 0
  IN [left |-> left, right |-> width - card.style.width - left,
      top |-> top, bottom |-> height - card.style.height - top]

\* ------------------------------------------------------------------------
\* Properties
\* ------------------------------------------------------------------------
FontsAllPresent == FontPaths \subseteq DOMAIN files

OkPages == {k \in 1..Len(results) : results[k] = "ok"}

Range(f) == {f[x] : x \in DOMAIN f}

LastOf(seq) == seq[Len(seq)]

HasBgImage(page) == page.bgImage # NoBgImage

\* C1: with the three fonts on disk a run ends in the summary, every page has
\* been attempted however many of them threw, and the summary reports the
\* number of pages that did not throw out of the number of pages.
PartialFailureIsolation ==
  (Terminated /\ FontsAllPresent) =>
    /\ pc = "done"
    /\ Len(results) = Len(pages)
    /\ Len(generated) = Cardinality(OkPages)
    /\ LastOf(log).msg = "Generated OG images"
    /\ LastOf(log).arg[1] = Cardinality(OkPages)
    /\ LastOf(log).arg[2] = Len(pages)

\* a page that threw is followed by a page that was generated
WitnessPartialFailure ==
  /\ pc = "done"
  /\ Len(results) >= 2
  /\ results[1] = "failed"
  /\ results[2] = "ok"
  /\ LastOf(log).arg[1] = Len(pages) - 1

\* C2: when one of the three font files is absent the run ends with exit
\* code 1 and has written no file into the output directory.
MissingFontIsFatal ==
  ~FontsAllPresent =>
    /\ written = {}
    /\ DOMAIN ogFiles = {}
    /\ results = <<>>
    /\ Terminated => (pc = "exited" /\ exitCode = 1)

\* the run ended on the third font after two were loaded, pages were waiting
WitnessMissingFont ==
  /\ pc = "exited"
  /\ exitCode = 1
  /\ Len(fonts) = 2
  /\ Len(pages) > 0
  /\ written = {}

\* C3: a finished run has exit code 1 exactly when a font file is missing and
\* exit code 0 otherwise, whatever happened to the pages and to the download.
ExitCodeReflectsFontsOnly ==
  Terminated =>
    /\ exitCode \in {0, 1}
    /\ (exitCode = 1) <=> ~FontsAllPresent

\* exit code 0 although the download failed and every page failed
WitnessExitZeroDespiteFailures ==
  /\ pc = "done"
  /\ exitCode = 0
  /\ Len(pages) > 0
  /\ OkPages = {}
  /\ bgCache[DEFAULT_BG_PATH] = PLACEHOLDER_DATA_URL

AssetsResolved == pc \in {"fonts", "pages", "awaitPage", "done", "exited"}

LoaderCallsTotal == loaderCalls[DEFAULT_BG_PATH] + loaderCalls[SPECIAL_BG_PATH]

\* C4 as stated: no path is read or fetched twice, and once the backgrounds
\* are resolved the number of loader calls is the number of distinct resolved
\* background paths.
LoaderCallsEqualDistinctPaths ==
  /\ \A p \in AllBgPaths : loaderCalls[p] <= 1
  /\ AssetsResolved => LoaderCallsTotal = Cardinality(bgPaths)

\* C4, amended: no path is read or fetched twice, and once the backgrounds are
\* resolved the number of loader calls is the number of distinct resolved
\* paths that are the default path or have a file on disk; an override path
\* without a file is never handed to the loader.
LoaderCallsEqualLoadablePaths ==
  /\ \A p \in AllBgPaths : loaderCalls[p] <= 1
  /\ AssetsResolved =>
       LoaderCallsTotal =
         Cardinality({p \in bgPaths : p = DEFAULT_BG_PATH \/ existsSync(p)})

\* two pages share one override file, which was read once
WitnessSharedOverrideLoadedOnce ==
  /\ pc = "done"
  /\ Len(pages) = 2
  /\ HasBgImage(pages[1]) /\ BgPathOf(pages[1]) = SPECIAL_BG_PATH
  /\ HasBgImage(pages[2]) /\ BgPathOf(pages[2]) = SPECIAL_BG_PATH
  /\ existsSync(SPECIAL_BG_PATH)
  /\ loaderCalls[SPECIAL_BG_PATH] = 1
  /\ LoaderCallsTotal = 2

MissingOverride(page) == HasBgImage(page) /\ ~existsSync(BgPathOf(page))

Warned(slug) ==
  \E k \in 1..Len(log) :
    log[k] = Say("warn", "Background not found for", slug)

DownloadOutcomeBecomesDefault ==
  (dl.state \in {"resolved", "rejected"} /\ pc # "awaitDownload") =>
    /\ pc = "bgResolved"
    /\ exitCode = 0
    /\ dl.state = "resolved" =>
         /\ LastOf(dl.statuses) = 200
         /\ bgCache[DEFAULT_BG_PATH] =
              DataUrl("image/jpeg", ToBase64(RemoteBody(dl.url)))
    /\ dl.state = "rejected" =>
         bgCache[DEFAULT_BG_PATH] = PLACEHOLDER_DATA_URL

\* 301 -> 301 -> 200: the body of the 200 response is the default background
WitnessRedirectChain ==
  /\ pc = "bgResolved"
  /\ dl.state = "resolved"
  /\ dl.statuses = <<301, 301, 200>>
  /\ bgCache[DEFAULT_BG_PATH] = DataUrl("image/jpeg", ToBase64(RemoteBody(MIRROR_URL)))

\* C7: the promise of downloadFile is resolved only by the 'end' of a response
\* with status 200, with the bytes received so far in their order; a response
\* is followed only when its status is 301 or 302, and a response that is not
\* followed and is not a 200 rejects the promise with its status code.
DownloadSettlesByStatus ==
  [][ /\ (dl'.state = "resolved" /\ dl.state # "resolved") =>
           /\ dl.state = "streaming"
           /\ LastOf(dl.statuses) = 200
           /\ dl.sent = Len(RemoteBody(dl.url))
           /\ dl'.value = SubSeq(RemoteBody(dl.url), 1, dl.sent)
      /\ (dl.state = "requesting" /\ Len(dl'.statuses) = Len(dl.statuses) + 1) =>
           LET st == LastOf(dl'.statuses) IN
           IF dl'.hops = dl.hops + 1
           THEN st \in {301, 302} /\ dl'.state = "requesting"
           ELSE IF st = 200
                THEN dl'.state = "streaming"
                ELSE dl'.state = "rejected" /\ dl'.error = <<"HTTP", st>>
    ]_vars

\* a 301 without Location header rejected the download with status 301
WitnessRedirectWithoutLocation ==
  /\ dl.state = "rejected"
  /\ dl.error = <<"HTTP", 301>>
  /\ dl.hops = 0

\* C8: requests are made only while no file exists at the default path; a
\* download that resolved is stored at the default path with the bytes the
\* last URL served; and in every later run the file is read once and no
\* request is made.
DefaultBackgroundWriteThrough ==
  /\ (pc = "awaitDownload" \/ dl.state \in {"requesting", "streaming"}) =>
       ~existsSync(DEFAULT_BG_PATH)
  /\ httpRequests > 0 => (lastSave.run = run \/ ~existsSync(DEFAULT_BG_PATH))
  /\ (pc = "bgResolved" /\ dl.state = "resolved") =>
       /\ lastSave.run = run
       /\ existsSync(DEFAULT_BG_PATH)
       /\ files[DEFAULT_BG_PATH] = RemoteBody(dl.url)
  /\ lastSave.run > 0 =>
       /\ existsSync(DEFAULT_BG_PATH)
       /\ files[DEFAULT_BG_PATH] = lastSave.bytes
  /\ (lastSave.run > 0 /\ run > lastSave.run) =>
       /\ httpRequests = 0
       /\ dl.state = "idle"
       /\ pc \notin {"start", "collect", "defaultBg"} =>
            /\ loaderCalls[DEFAULT_BG_PATH] = 1
            /\ bgCache[DEFAULT_BG_PATH] =
                 DataUrl("image/jpeg", ToBase64(lastSave.bytes))

\* the second run finished without a request, on the file the first run saved
WitnessSecondRunReadsSavedFile ==
  /\ run = 2
  /\ lastSave.run = 1
  /\ pc = "done"
  /\ httpRequests = 0
  /\ loaderCalls[DEFAULT_BG_PATH] = 1

DefaultResolved ==
  /\ loaderCalls[DEFAULT_BG_PATH] = 1
  /\ MapHas(bgCache, DEFAULT_BG_PATH)
  /\ Truthy(bgCache[DEFAULT_BG_PATH])

DefaultResolvedFirst ==
  /\ pc \in {"start", "collect", "defaultBg"} =>
       loaderCalls[DEFAULT_BG_PATH] = 0 /\ ~MapHas(bgCache, DEFAULT_BG_PATH)
  /\ pc = "awaitDownload" =>
       loaderCalls[DEFAULT_BG_PATH] = 1 /\ ~MapHas(bgCache, DEFAULT_BG_PATH)
  /\ pc \in {"bgResolved", "overrides", "fonts", "pages", "awaitPage",
             "done", "exited"} => DefaultResolved
  /\ results # <<>> => DefaultResolved
  /\ (pc = "awaitPage" /\ (~HasBgImage(pages[idx])
                           \/ ~MapHas(bgCache, BgPathOf(pages[idx])))) =>
       bgDataUrl = bgCache[DEFAULT_BG_PATH]

\* C9: the default background is loaded or fetched exactly once per run, before
\* the overrides, the fonts and every page and also when every page has its
\* own background; from then on the cache holds a non-empty entry for the
\* default path that never changes, and a page without a cached override is
\* generated with that entry.
DefaultResolvedOnceAndShared ==
  /\ []DefaultResolvedFirst
  /\ [][(MapHas(bgCache, DEFAULT_BG_PATH) /\ pc # "awaitDownload") =>
          /\ MapHas(bgCache', DEFAULT_BG_PATH)
          /\ bgCache'[DEFAULT_BG_PATH] = bgCache[DEFAULT_BG_PATH]]_vars

\* both pages were generated with their own background, the default was
\* resolved all the same
WitnessDefaultResolvedUnused ==
  /\ pc = "done"
  /\ Len(pages) = 2
  /\ \A k \in 1..2 : HasBgImage(pages[k]) /\ BgPathOf(pages[k]) = SPECIAL_BG_PATH
  /\ MapHas(bgCache, SPECIAL_BG_PATH)
  /\ results = <<"ok", "ok">>
  /\ DefaultResolved

DistinctSlugs ==
  \A j, k \in 1..Len(pages) : pages[j].slug = pages[k].slug => j = k

SuccessfulFilenames == {<<"og-", pages[k].slug, ".png">> : k \in OkPages}

\* C10: after a run over pages with pairwise distinct slugs the output
\* directory holds exactly the files og-{slug}.png of the pages that were
\* generated, one for each of them, and these are the names the summary lists.
OutputFilesMatchSummary ==
  (pc = "done" /\ DistinctSlugs) =>
    /\ DOMAIN ogFiles = SuccessfulFilenames
    /\ written = SuccessfulFilenames
    /\ Cardinality(DOMAIN ogFiles) = Cardinality(OkPages)
    /\ Range(generated) = SuccessfulFilenames
    /\ Len(generated) = Cardinality(OkPages)
    /\ LastOf(log).arg[3] = generated

\* of two pages with different slugs the first was written, the second failed
WitnessOneFilePerSuccess ==
  /\ pc = "done"
  /\ Len(pages) = 2
  /\ DistinctSlugs
  /\ results = <<"ok", "failed">>
  /\ DOMAIN ogFiles = {<<"og-", pages[1].slug, ".png">>}
  /\ generated = <<<<"og-", pages[1].slug, ".png">>>>

\* C11: pages with equal slugs are all generated; after the run the file
\* og-{slug}.png holds the image of the last page of that slug that was
\* generated, every one of them is counted in the summary, and the only
\* warnings of the run are those about missing background files.
DuplicateSlugLastWriterWins ==
  pc = "done" =>
    /\ Len(results) = Len(pages)
    /\ \A j, k \in OkPages :
         (/\ j < k
          /\ pages[j].slug = pages[k].slug
          /\ ~\E l \in OkPages : l > k /\ pages[l].slug = pages[k].slug) =>
           ogFiles[<<"og-", pages[k].slug, ".png">>] =
             OgPng(pages[k], ResolveBackground(pages[k]), fonts)
    /\ \A n \in 1..Len(log) :
         log[n].level = "warn" => log[n].msg = "Background not found for"
    /\ Len(generated) = Cardinality(OkPages)
    /\ LastOf(log).arg[1] = Cardinality(OkPages)

\* two pages with one slug and different backgrounds were both generated: one
\* file, holding the second page, and a summary that counts two
WitnessDuplicateSlugOverwritten ==
  /\ pc = "done"
  /\ Len(pages) = 2
  /\ pages[1].slug = pages[2].slug
  /\ results = <<"ok", "ok">>
  /\ Cardinality(DOMAIN ogFiles) = 1
  /\ OgPng(pages[1], ResolveBackground(pages[1]), fonts)
       # OgPng(pages[2], ResolveBackground(pages[2]), fonts)
  /\ ogFiles[<<"og-", pages[2].slug, ".png">>] =
       OgPng(pages[2], ResolveBackground(pages[2]), fonts)
  /\ LastOf(log).arg[1] = 2
  /\ \A n \in 1..Len(log) : log[n].level # "warn"

IsPageStart(entry) == entry.level = "out"

PageStarts == SelectSeq(log, IsPageStart)

RECURSIVE FilenamesOfOk(_)
FilenamesOfOk(n) ==
  IF n = 0 THEN <<>>
  ELSE IF results[n] = "ok"
       THEN Append(FilenamesOfOk(n - 1), <<"og-", pages[n].slug, ".png">>)
       ELSE FilenamesOfOk(n - 1)

\* C12: the pages are started in the order of the list; a page is started only
\* when all pages before it have settled, the generated ones with their file
\* in the output directory, so that at most one page is started and not yet
\* settled; the list of the summary holds the filenames in the order of the
\* pages.
PagesStrictlySequential ==
  /\ Len(PageStarts) - Len(results) = (IF pc = "awaitPage" THEN 1 ELSE 0)
  /\ Len(PageStarts) <= Len(pages)
  /\ \A k \in 1..Len(PageStarts) : PageStarts[k].arg = pages[k].slug
  /\ \A k \in 1..Len(results) :
       results[k] = "ok" => <<"og-", pages[k].slug, ".png">> \in DOMAIN ogFiles
  /\ generated = FilenamesOfOk(Len(results))
  /\ pc = "done" => LastOf(log).arg[3] = FilenamesOfOk(Len(pages))

\* the second page is in flight after the first was written; nothing else is
WitnessSecondPageAfterFirstWritten ==
  /\ pc = "awaitPage"
  /\ idx = 2
  /\ results = <<"ok">>
  /\ Len(PageStarts) = 2
  /\ pages[1].slug # pages[2].slug
  /\ DOMAIN ogFiles = {<<"og-", pages[1].slug, ".png">>}

IsDownloadStart(entry) == entry.msg = "Downloading default background image"

AttemptedOnce ==
  /\ Len(SelectSeq(log, IsDownloadStart)) <= 1
  /\ loaderCalls[DEFAULT_BG_PATH] <= 1
  /\ Len(PageStarts) <= Len(pages)
  /\ \A k \in 1..Len(PageStarts) : PageStarts[k].arg = pages[k].slug
  /\ (Terminated /\ FontsAllPresent) =>
       /\ Len(PageStarts) = Len(pages)
       /\ Len(results) = Len(pages)

\* C13: in one run downloadFile is called by main at most once and a download
\* that has settled is followed by no further request; every page is started
\* at most once, exactly once when the fonts are there, and a page that has
\* settled, generated or failed, is never started again.
NothingIsRetried ==
  /\ []AttemptedOnce
  /\ [][/\ dl.state \in {"resolved", "rejected"} =>
             /\ httpRequests' = httpRequests
             /\ dl'.state \in {dl.state, "idle"}
        /\ results' # results =>
             /\ Len(results') = Len(results) + 1
             /\ idx' = idx + 1
        /\ (pc \in {"pages", "awaitPage"} /\ pc' \in {"pages", "awaitPage"}) =>
             idx' >= idx]_vars

\* the download failed and the first page failed, the run went on to the end
WitnessFailuresNotRetried ==
  /\ pc = "done"
  /\ dl.state = "idle"
  /\ loaderCalls[DEFAULT_BG_PATH] = 1
  /\ httpRequests = 1
  /\ bgCache[DEFAULT_BG_PATH] = PLACEHOLDER_DATA_URL
  /\ Len(pages) = 2
  /\ results = <<"failed", "ok">>
  /\ Len(PageStarts) = 2

HasCanvasSize(png) ==
  /\ png.svg.width = 1200
  /\ png.svg.height = 630
  /\ png.fitTo = [mode |-> "width", value |-> 1200]

\* C14: the image of the page in flight, and every image in the output
\* directory, is laid out on a canvas of width 1200 and height 630 and
\* rasterized fit to width 1200, whatever the page holds.
CanvasIsAlways1200x630 ==
  /\ \A f \in DOMAIN ogFiles : HasCanvasSize(ogFiles[f])
  /\ pc = "awaitPage" => HasCanvasSize(OgPng(pages[idx], bgDataUrl, fonts))

\* two pages that differ in texts, colors and background, both 1200x630
WitnessTwoPagesSameCanvas ==
  /\ pc = "done"
  /\ Len(pages) = 2
  /\ results = <<"ok", "ok">>
  /\ pages[1].accentColors # pages[2].accentColors
  /\ ResolveBackground(pages[1]) # ResolveBackground(pages[2])
  /\ Cardinality(DOMAIN ogFiles) = 2
  /\ \A f \in DOMAIN ogFiles : HasCanvasSize(ogFiles[f])

TemplateCalls == {k \in 1..Len(calls) : calls[k].fn = "createOGTemplate"}

CardIs1100x550(tree) ==
  /\ InFlowChildren(tree) = {3}
  /\ tree.children[3].style.width = 1100
  /\ tree.children[3].style.height = 550

LoadCalls == {k \in 1..Len(calls) : calls[k].fn = "loadImageAsBase64"}

\* the MIME type the extension table gives for a path
TableMimeType(imagePath) ==
  LET last == imagePath[Len(imagePath)]
      ext == IF Len(last) >= 2 THEN ToLowerCase(last[Len(last)]) ELSE ""
  IN CASE ext \in {"jpg", "jpeg"} -> "image/jpeg"
       [] ext = "png" -> "image/png"
       [] ext = "webp" -> "image/webp"
       [] OTHER -> "image/jpeg"

\* C16 as stated: loadImageAsBase64 returns the data URI of the file's bytes
\* whose MIME type is the one the table gives for the extension, compared
\* without regard to case, image/jpeg for any other or no extension, and so
\* always one of image/jpeg, image/png and image/webp.
MimeTypeFollowsExtensionTable ==
  \A k \in LoadCalls :
    /\ calls[k].result[2] = TableMimeType(calls[k].imagePath)
    /\ calls[k].result[2] \in {"image/jpeg", "image/png", "image/webp"}
    /\ calls[k].result =
         <<"data:", calls[k].result[2], ";base64,">>
           \o ToBase64(files[calls[k].imagePath])

DividerOf(tree) == tree.children[3].children[5]

HasOverride(page) == page.accentColors # {}

\* C17: the divider of every template is the gradient, at 90deg, of the
\* page's accentColors when the page has them and of #e26b34, #336851,
\* #1b3c65 when it has none, with start at 0%, middle at 50% and end at 100%.
DividerGradientFromAccentColors ==
  \A k \in TemplateCalls :
    LET page == calls[k].page
        gradient == DividerOf(calls[k].result).style.background
    IN /\ HasOverride(page) =>
            \A c \in page.accentColors :
              gradient = <<"linear-gradient", "90deg",
                           <<c.start, 0>>, <<c.middle, 50>>, <<c.end, 100>> >>
       /\ ~HasOverride(page) =>
            gradient = <<"linear-gradient", "90deg",
                         <<"#e26b34", 0>>, <<"#336851", 50>>, <<"#1b3c65", 100>> >>

\* a page with accentColors and a page without were built, with different
\* gradients
WitnessOverrideAndDefaultGradient ==
  /\ Len(calls) = 2
  /\ TemplateCalls = {1, 2}
  /\ HasOverride(calls[1].page)
  /\ ~HasOverride(calls[2].page)
  /\ DividerOf(calls[1].result).style.background[3][1] = "#3b82f6"
  /\ DividerOf(calls[2].result).style.background[3][1] = "#e26b34"

SameTemplateInputs(a, b) ==
  /\ a.page.title = b.page.title
  /\ a.page.subtitle = b.page.subtitle
  /\ a.page.description = b.page.description
  /\ a.page.badge = b.page.badge
  /\ a.page.accentColors = b.page.accentColors
  /\ a.bgImageDataUrl = b.bgImageDataUrl

\* C18: two calls of createOGTemplate with the same title, subtitle,
\* description, badge, accentColors and background data URI return the same
\* tree, whatever the slugs are, and a call changes no file, no cache and no
\* other state of the program.
TemplateIsPureAndIgnoresSlug ==
  /\ [](TemplateCalls = {1, 2} /\ SameTemplateInputs(calls[1], calls[2]) =>
          calls[1].result = calls[2].result)
  /\ [][(calls' # calls /\ calls'[1].fn = "createOGTemplate") =>
          UNCHANGED mainVars]_vars

\* two calls that differ in the slug only returned the same tree
WitnessSameTreeForTwoSlugs ==
  /\ TemplateCalls = {1, 2}
  /\ SameTemplateInputs(calls[1], calls[2])
  /\ calls[1].page.slug # calls[2].page.slug
  /\ calls[1].result = calls[2].result

\* the tree without the values that are substituted per page
Skeleton(tree) ==
  [tree EXCEPT !.children[1].src = "",
               !.children[3].children[2].children = "",
               !.children[3].children[3].children = "",
               !.children[3].children[4].children = "",
               !.children[3].children[5].style.background = <<>>,
               !.children[3].children[6].children = ""]

HasFixedShape(call) ==
  LET tree == call.result
      card == tree.children[3]
  IN /\ Len(tree.children) = 3
     /\ tree.children[1].type = "img"
     /\ tree.children[1].src = call.bgImageDataUrl
     /\ tree.children[2].style.background[2] = "135deg"
     /\ card.style.width = 1100
     /\ Len(card.children) = 6
     /\ "children" \notin DOMAIN card.children[1]
     /\ card.children[1].style.height = "50%"
     /\ card.children[2].children = call.page.badge
     /\ card.children[2].style.fontSize = 20
     /\ card.children[3].children = call.page.title
     /\ card.children[3].style.fontSize = 64
     /\ card.children[4].children = call.page.subtitle
     /\ card.children[4].style.fontSize = 32
     /\ card.children[5].style.height = 3
     /\ card.children[5].style.background[1] = "linear-gradient"
     /\ card.children[5].style.background[2] = "90deg"
     /\ Len(card.children[5].style.background) = 5
     /\ \A n \in 1..3 :
          card.children[5].style.background[n + 2][2] = (n - 1) * 50
     /\ card.children[6].children = call.page.description
     /\ card.children[6].style.fontSize = 24

\* C19: every template has three children under the root: image, dark
\* overlay, card; and six under the card: glossy overlay, badge, title,
\* subtitle, divider, description; two templates are equal once the image
\* source, the four texts and the divider's gradient are left out.
TemplateShapeIsFixed ==
  /\ \A k \in TemplateCalls : HasFixedShape(calls[k])
  /\ TemplateCalls = {1, 2} =>
       Skeleton(calls[1].result) = Skeleton(calls[2].result)

\* two templates that differ in background, texts and colors, one of them
\* with an empty badge, have the same shape
WitnessSameShapeDifferentValues ==
  /\ TemplateCalls = {1, 2}
  /\ calls[1].bgImageDataUrl # calls[2].bgImageDataUrl
  /\ calls[1].page.title # calls[2].page.title
  /\ calls[1].page.badge = "" /\ calls[2].page.badge # ""
  /\ calls[1].page.accentColors # calls[2].page.accentColors
  /\ calls[1].result # calls[2].result
  /\ Skeleton(calls[1].result) = Skeleton(calls[2].result)

\* the fontWeight values of the text elements of a tree
FontWeightsUsed(tree) ==
  {tree.children[3].children[k].style.fontWeight : k \in {2, 3, 4, 6}}

FontWeightsLoaded == {fonts[k].weight : k \in 1..Len(fonts)}

\* C20: while a page is being generated the font list holds exactly three
\* entries, all Montserrat, with the weights 700, 500 and 400 and the bytes
\* of the three font files; the template uses 500 for the badge, 700 for the
\* title, 500 for the subtitle and 400 for the description, each of which is
\* a weight of the list.
FontsCoverTemplateWeights ==
  pc = "awaitPage" =>
    LET tree == createOGTemplate(pages[idx], bgDataUrl) IN
    /\ Len(fonts) = 3
    /\ \A k \in 1..3 :
         /\ fonts[k].name = "Montserrat"
         /\ fonts[k].style = "normal"
         /\ fonts[k].data = files[FontPath(fontFiles[k])]
    /\ <<fonts[1].weight, fonts[2].weight, fonts[3].weight>> = <<700, 500, 400>>
    /\ tree.children[3].children[2].style.fontWeight = 500
    /\ tree.children[3].children[3].style.fontWeight = 700
    /\ tree.children[3].children[4].style.fontWeight = 500
    /\ tree.children[3].children[6].style.fontWeight = 400
    /\ FontWeightsUsed(tree) \subseteq FontWeightsLoaded

\* a page is being generated with the three fonts loaded
WitnessPageStartedWithThreeFonts ==
  /\ pc = "awaitPage"
  /\ idx = 1
  /\ FontWeightsLoaded = {400, 500, 700}
  /\ FontWeightsUsed(createOGTemplate(pages[1], bgDataUrl)) = {400, 500, 700}

Phase ==
  CASE pc = "start" -> "Init"
    [] pc \in {"collect", "defaultBg", "awaitDownload", "bgResolved",
               "overrides", "fonts"} -> "AssetsLoading"
    [] pc \in {"pages", "awaitPage"} -> "PerPageGenerating"
    [] pc = "done" -> "Summarized"
    [] pc = "exited" -> "Fatal"

PhaseSteps ==
  { <<"Init", "AssetsLoading">>, <<"AssetsLoading", "Fatal">>,
    <<"AssetsLoading", "PerPageGenerating">>,
    <<"PerPageGenerating", "Summarized">> }

IsSummary(entry) == entry.msg = "Generated OG images"

OverridesResolved ==
  \A k \in 1..Len(pages) :
    (HasBgImage(pages[k]) /\ existsSync(BgPathOf(pages[k]))) =>
      MapHas(bgCache, BgPathOf(pages[k]))

PhaseOrder ==
  /\ Phase # "Init" => OUTPUT_DIR \in dirs
  /\ Phase = "Init" =>
       /\ LoaderCallsTotal = 0
       /\ httpRequests = 0
       /\ bgCache = EmptyMap
       /\ fonts = <<>>
  /\ (Phase = "PerPageGenerating" \/ results # <<>>) =>
       /\ DefaultResolved
       /\ OverridesResolved
       /\ Len(fonts) = 3
  /\ Phase \in {"Init", "AssetsLoading", "Fatal"} =>
       results = <<>> /\ PageStarts = <<>> /\ DOMAIN ogFiles = {}
  /\ Phase = "Summarized" <=> SelectSeq(log, IsSummary) # <<>>
  /\ Phase = "Summarized" => Len(results) = Len(pages)

\* C21: a run goes from Init to AssetsLoading, from there to Fatal or to
\* PerPageGenerating, and from PerPageGenerating to Summarized, and makes no
\* other change of phase; the output directory exists from AssetsLoading on
\* and nothing is loaded before, pages are generated only with the default
\* background, the overrides and the three fonts resolved, and the summary is
\* there exactly when every page was attempted.
RunFollowsPhases ==
  /\ []PhaseOrder
  /\ [][Phase' # Phase => <<Phase, Phase'>> \in PhaseSteps]_vars

\* a run that went through all phases with two pages, an override and a download
WitnessSummarizedAfterAllPhases ==
  /\ pc = "done"
  /\ Len(results) = 2
  /\ lastSave.run = run
  /\ MapHas(bgCache, SPECIAL_BG_PATH)
  /\ Len(fonts) = 3
  /\ OUTPUT_DIR \in dirs

Logged(level, msg) == \E n \in 1..Len(log) : log[n].level = level /\ log[n].msg = msg

FailedPages == {k \in 1..Len(results) : results[k] = "failed"}

DownloadHasFailed ==
  /\ pc \notin {"start", "collect", "defaultBg", "awaitDownload"}
  /\ httpRequests > 0
  /\ lastSave.run # run

OverrideIsMissing ==
  /\ AssetsResolved
  /\ \E k \in 1..Len(pages) :
       MissingOverride(pages[k]) /\ BgPathOf(pages[k]) # DEFAULT_BG_PATH

SomeFailure ==
  \/ ~FontsAllPresent
  \/ DownloadHasFailed
  \/ OverrideIsMissing
  \/ FailedPages # {}

FailuresAreLogged ==
  /\ ~FontsAllPresent => Logged("error", "Font not found")
  /\ DownloadHasFailed => Logged("error", "Failed to download background image")
  /\ OverrideIsMissing => Logged("warn", "Background not found for")
  /\ FailedPages # {} => Logged("error", "page error")

\* the outcome of a run in which nothing failed
OutcomeAsWithoutFailure ==
  /\ pc = "done"
  /\ exitCode = 0
  /\ LastOf(log).arg[1] = Len(pages)

\* C22 as stated: in a finished run every failure is logged, and a run in
\* which a font was missing, the download failed, an override was missing or
\* a page failed does not end with the exit code and the summary count of
\* the run in which nothing failed.
EveryFailureChangesOutcome ==
  Terminated =>
    /\ FailuresAreLogged
    /\ SomeFailure => ~OutcomeAsWithoutFailure

\* C22, amended: in a finished run every failure is logged; the exit code is
\* 1 exactly when a font is missing, and the summary count is the number of
\* pages less the pages that failed, so that a failed download and a missing
\* override change neither of the two.
FailuresLoggedFontsAndPagesCount ==
  Terminated =>
    /\ FailuresAreLogged
    /\ (exitCode = 1) <=> ~FontsAllPresent
    /\ pc = "done" => LastOf(log).arg[1] = Len(pages) - Cardinality(FailedPages)
    /\ (FontsAllPresent /\ FailedPages = {}) => OutcomeAsWithoutFailure

\* the download failed and an override was missing, both logged, and the run
\* ended as a run without failure does
WitnessFailuresWithoutEffect ==
  /\ pc = "done"
  /\ Len(pages) = 2
  /\ DownloadHasFailed
  /\ OverrideIsMissing
  /\ Logged("error", "Failed to download background image")
  /\ Logged("warn", "Background not found for")
  /\ OutcomeAsWithoutFailure

\* C23 as stated: a run in which no font is missing never ends otherwise than
\* with the summary, after every page was attempted; whatever a file-system
\* call throws is caught and logged and the run goes on.
ErrorsAreCaughtAndRunContinues ==
  (Ended /\ FontsAllPresent) =>
    /\ pc = "done"
    /\ Len(results) = Len(pages)
    /\ Logged("log", "Generated OG images")

\* C24 as stated: within one run a background cache key, once written, keeps
\* its value and is never removed, on every path through the resolution of
\* the default background, a failed save included.
CacheEntriesWrittenOnce ==
  [][\A key \in DOMAIN bgCache :
       MapHas(bgCache', key) /\ MapGet(bgCache', key) = MapGet(bgCache, key)]_vars

SaveHasThrown ==
  \E n \in 1..Len(thrown) :
    thrown[n] \in {Throw("mkdirSync", BG_DIR), Throw("writeFileSync", DEFAULT_BG_PATH)}

DownloadedDataUrl == DataUrl("image/jpeg", ToBase64(dl.value))

\* the data URLs a completed download can give
DownloadableDataUrls ==
  {DataUrl("image/jpeg", ToBase64(RemoteBody(url))) : url \in {DEFAULT_BG_URL, MIRROR_URL}}

\* C27: when the default background was downloaded but saving it threw, the
\* cache entry set from the downloaded bytes is replaced by the 1x1
\* placeholder, and every page that uses the default background is given the
\* placeholder, not the downloaded image.
FailedSaveFallsBackToPlaceholder ==
  /\ [](/\ pc = "saveFailed" =>
             /\ SaveHasThrown
             /\ dl.state = "resolved"
             /\ DownloadedDataUrl \in DownloadableDataUrls
             /\ MapGet(bgCache, DEFAULT_BG_PATH) = DownloadedDataUrl
        /\ (SaveHasThrown /\ pc # "saveFailed") =>
             /\ MapGet(bgCache, DEFAULT_BG_PATH) = PLACEHOLDER_DATA_URL
             /\ ~existsSync(DEFAULT_BG_PATH)
             /\ (pc = "awaitPage" /\ ~MapHas(bgCache, BgPathOf(pages[idx])))
                  => bgDataUrl = PLACEHOLDER_DATA_URL)
  /\ [][(pc = "saveFailed" /\ pc' # "saveFailed") =>
          bgCache' = MapSet(bgCache, DEFAULT_BG_PATH, PLACEHOLDER_DATA_URL)]_vars

WitnessPlaceholderAfterFailedSave ==
  /\ SaveHasThrown
  /\ pc = "done"
  /\ PLACEHOLDER_DATA_URL \notin DownloadableDataUrls
  /\ \E k \in 1..Len(pages) :
       /\ ~Truthy(pages[k].bgImage)
       /\ results[k] = "ok"
       /\ ogFiles[OgFilename(pages[k].slug)] = OgPng(pages[k], PLACEHOLDER_DATA_URL, fonts)
       /\ \A downloaded \in DownloadableDataUrls :
            ogFiles[OgFilename(pages[k].slug)] # OgPng(pages[k], downloaded, fonts)

PageSettles == Len(results') = Len(results) + 1

\* C25: a page whose generation fails leaves the output directory exactly as
\* it was before the page was attempted: no og-{slug}.png is created for it
\* and no existing file is changed or removed. The directory changes only in
\* the step that completes a page, and then only the page's own file, which
\* gets the finished PNG.
FailedPageLeavesOutputUntouched ==
  /\ [][(PageSettles /\ LastOf(results') = "failed") => ogFiles' = ogFiles]_vars
  /\ [][ogFiles' # ogFiles =>
          /\ PageSettles
          /\ LastOf(results') = "ok"
          /\ ogFiles' = MapSet(ogFiles, OgFilename(pages[idx].slug),
                               OgPng(pages[idx], bgDataUrl, fonts))]_vars
  /\ [](pc = "awaitPage" =>
          DOMAIN ogFiles = {OgFilename(pages[k].slug) : k \in OkPages})

\* the second page has the slug of the first and fails: the file of the first
\* page is still there, unchanged
WitnessFailedPageKeepsEarlierFile ==
  /\ pc = "done"
  /\ Len(pages) = 2
  /\ pages[1].slug = pages[2].slug
  /\ results = <<"ok", "failed">>
  /\ ogFiles[OgFilename(pages[2].slug)] = OgPng(pages[1], ResolveBackground(pages[1]), fonts)

DownloadPending == dl.state \in {"requesting", "streaming"}

DownloadSettled == dl.state \in {"resolved", "rejected"}

\* C26 as stated: when every request gets a response or a transport error, a
\* download that was started is eventually resolved or rejected; following
\* redirects cannot keep it pending forever.
DownloadEventuallySettles == DownloadPending ~> DownloadSettled

BeforeFontCheck ==
  pc \in {"start", "collect", "defaultBg", "awaitDownload", "bgResolved", "overrides"}

\* C28: the fonts are looked at only after the output directory was created
\* and every background was resolved; a run that exits with code 1 for a
\* missing font leaves the output directory and the default background it
\* downloaded and saved on disk.
FontCheckAfterDirAndBackgrounds ==
  /\ [](BeforeFontCheck =>
          /\ fonts = <<>>
          /\ exitCode = 0
          /\ ~Logged("error", "Font not found"))
  /\ []((pc = "fonts" \/ pc = "exited") =>
          /\ OUTPUT_DIR \in dirs
          /\ DefaultResolved
          /\ OverridesResolved)
  /\ [](pc = "exited" =>
          /\ exitCode = 1
          /\ Logged("error", "Font not found")
          /\ lastSave.run = run =>
               /\ httpRequests > 0
               /\ BG_DIR \in dirs
               /\ existsSync(DEFAULT_BG_PATH)
               /\ files[DEFAULT_BG_PATH] = lastSave.bytes)
  /\ [][pc' = "exited" => (files' = files /\ dirs' = dirs /\ ogFiles' = ogFiles)]_vars

WitnessExitAfterDownloadSaved ==
  /\ pc = "exited"
  /\ exitCode = 1
  /\ OUTPUT_DIR \in dirs
  /\ lastSave.run = run
  /\ existsSync(DEFAULT_BG_PATH)
  /\ files[DEFAULT_BG_PATH] = lastSave.bytes
  /\ lastSave.bytes # <<>>
  /\ Logged("log", "Saved locally for future builds")

\* the state the earlier generator is in when the current one is in this state
SingleView ==
  [pc |-> CASE pc \in {"collect", "defaultBg"} -> "background"
            [] pc \in {"bgResolved", "overrides"} -> "fonts"
            [] OTHER -> pc,
   idx |-> IF pc \in {"fonts", "pages", "awaitPage", "done", "exited"} THEN idx ELSE 1,
   bgImageDataUrl |-> MapGet(bgCache, DEFAULT_BG_PATH),
   fonts |-> fonts,
   generated |-> generated,
   exitCode |-> exitCode,
   files |-> files,
   dirs |-> dirs,
   ogFiles |-> ogFiles,
   dl |-> IF pc = "awaitDownload" THEN dl ELSE IdleDownload,
   passed |-> bgDataUrl]

\* steps of the current generator that the earlier one has no counterpart for
OwnStepPending == pc \in {"collect", "bgResolved", "overrides"}

\* C29: on page lists without any bgImage the two generators behave alike on
\* the same file system and network answers. Every step of the current
\* generator is a step of the earlier one or leaves the earlier one's state
\* as it is, and every step the earlier one can take, the current one can
\* take too; the state compared holds the data URL passed to each page, all
\* files and directories, the list of generated files and the exit code.
SingleAndMultiBehaveAlike ==
  /\ [](pc = "start" => SingleView = SingleStart(files, dirs))
  /\ [][SingleView' = SingleView \/ SingleView' \in SingleSteps(SingleView, pages)]_vars
  /\ [](OwnStepPending \/
          \A t \in SingleSteps(SingleView, pages) : ENABLED (Next /\ SingleView' = t))

WitnessBothGeneratedFromDownload ==
  /\ pc = "done"
  /\ Len(pages) = 2
  /\ \A k \in 1..Len(pages) : pages[k].bgImage = NoBgImage
  /\ results = <<"ok", "failed">>
  /\ lastSave.run = run
  /\ SingleView.pc = "done"
  /\ SingleView.bgImageDataUrl = DataUrl("image/jpeg", ToBase64(lastSave.bytes))
  /\ SingleView.passed = SingleView.bgImageDataUrl
  /\ Len(SingleView.generated) = 1

FontAttempted(k) ==
  \E n \in 1..Len(log) :
    log[n].msg \in {"Skipping", "Downloading"} /\ log[n].arg = FONTS[k].name

\* C30: the font downloader never overwrites an existing font file and never
\* leaves a partial one. A font whose destination exists is skipped without a
\* request; a destination is written only in the step that ends a 200
\* response, with all bytes served; the first failed download ends the
\* process with exit code 1 before any later font is attempted.
FontDownloaderIsSafe ==
  /\ [][\A p \in DOMAIN files : p \in DOMAIN files' /\ files'[p] = files[p]]_vars
  /\ [][files' # files =>
          /\ dl.state = "streaming" /\ dl'.state = "resolved"
          /\ LastOf(dl.statuses) = 200
          /\ files' = MapSet(files, DestPath(idx), ServedFont(idx))]_vars
  /\ [][httpRequests' # httpRequests => ~existsSync(DestPath(idx))]_vars
  /\ [][(pc = "fontLoop" /\ idx <= Len(FONTS) /\ existsSync(DestPath(idx))) =>
          (httpRequests' = httpRequests /\ files' = files /\ idx' = idx + 1)]_vars
  /\ [][(pc = "awaitFont" /\ dl.state = "rejected") =>
          (pc' = "exited" /\ exitCode' = 1 /\ files' = files)]_vars
  /\ [](\A k \in 1..Len(FONTS) :
          existsSync(DestPath(k)) => files[DestPath(k)] \in {InstalledFont, ServedFont(k)})
  /\ [](pc = "exited" =>
          /\ exitCode = 1
          /\ dl.state = "rejected"
          /\ ~existsSync(DestPath(idx))
          /\ \A k \in 1..Len(FONTS) : k > idx => ~FontAttempted(k))
  /\ [](pc # "exited" => exitCode = 0)

\* the first font was installed and is skipped; the second fails after a part
\* of it arrived; the third is never tried
WitnessFontFailedAfterPartialData ==
  /\ pc = "exited"
  /\ idx = 2
  /\ files[DestPath(1)] = InstalledFont
  /\ dl.chunks # <<>>
  /\ dl.sent < Len(ServedFont(2))
  /\ ~existsSync(DestPath(2))
  /\ ~FontAttempted(3)
  /\ httpRequests = 1

====
